---------------------------- MODULE Spec2Model ----------------------------
(***************************************************************************)
(* Model of scad-viewer: the parameter extractor and source synthesizer    *)
(* of app.js (parseParameters, buildModifiedSource), the main-thread       *)
(* compile control of app.js, and the compile worker of worker.js.         *)
(*                                                                         *)
(* Text is modelled by strings, used as sequences of characters (Len,     *)
(* SubSeq and \o).  A JavaScript value is a record [k, n, s, b]: k is its  *)
(* kind ("null", "num", "nan", "str", "bool"); a number is held in n as a  *)
(* fixed-point integer with FracDigits fractional decimal digits.         *)
(***************************************************************************)
EXTENDS Integers, Sequences, FiniteSets, TLC

(***************************************************************************)
(* Bounds of the model.                                                    *)
(***************************************************************************)
\* fractional decimal digits kept in a modelled number
FracDigits == 2
\* lines of a loaded source text (text specification)
MaxLines == 2
\* compile requests handled by the worker in one run
MaxReq == 2

(***************************************************************************)
(* Characters and strings.                                                 *)
(***************************************************************************)
Ch(s, i) == SubSeq(s, i, i)

Digits == {"0", "1", "2", "3", "4", "5", "6", "7", "8", "9"}

Letters ==
    {"a", "b", "c", "d", "e", "f", "g", "h", "i", "j", "k", "l", "m",
     "n", "o", "p", "q", "r", "s", "t", "u", "v", "w", "x", "y", "z",
     "A", "B", "C", "D", "E", "F", "G", "H", "I", "J", "K", "L", "M",
     "N", "O", "P", "Q", "R", "S", "T", "U", "V", "W", "X", "Y", "Z"}

\* a character class of a regular expression: the characters listed, or
\* with neg every character but those
Class(chars) == [neg |-> FALSE, chars |-> chars]
NotClass(chars) == [neg |-> TRUE, chars |-> chars]
Matches(cls, c) == (c \in cls.chars) # cls.neg

\* \w
WordClass == Class(Digits \cup Letters \cup {"_"})

\* \s (the members a source text here can hold)
SpaceClass == Class({" ", "\t", "\n", "\r"})

\* the dot: every character but the line terminators
DotClass == NotClass({"\n", "\r"})

\* \d
DigitClass == Class(Digits)

\* [\d.]
NumTokClass == Class(Digits \cup {"."})

IsSpace(c) == Matches(SpaceClass, c)

\* the first position at or after i whose character is not of class cls
\* (Len(s)+1 if none)
SkipWhile(s, i, cls) ==
    IF i > Len(s) THEN i
    ELSE CHOOSE j \in i..(Len(s) + 1) :
             /\ \A k \in i..(j - 1) : Matches(cls, Ch(s, k))
             /\ j = Len(s) + 1 \/ ~Matches(cls, Ch(s, j))

AllChars(s, i, j, cls) == \A k \in i..j : Matches(cls, Ch(s, k))

StartsWith(s, i, t) ==
    /\ i + Len(t) - 1 <= Len(s)
    /\ SubSeq(s, i, i + Len(t) - 1) = t

\* String.prototype.trim
Trim(s) ==
    LET From(i) ==
            IF i > Len(s) THEN ""
            ELSE SubSeq(s, i,
                        CHOOSE q \in i..Len(s) :
                            /\ ~IsSpace(Ch(s, q))
                            /\ \A k \in (q + 1)..Len(s) : IsSpace(Ch(s, k)))
    IN  From(SkipWhile(s, 1, SpaceClass))

\* the position of the first occurrence of character c at or after i
\* (Len(s)+1 if none)
IndexOfChar(s, i, c) ==
    IF i > Len(s) THEN Len(s) + 1
    ELSE CHOOSE j \in i..(Len(s) + 1) :
             /\ \A k \in i..(j - 1) : Ch(s, k) # c
             /\ j = Len(s) + 1 \/ Ch(s, j) = c

RECURSIVE SplitOn(_, _)
\* String.prototype.split with a one-character separator
SplitOn(s, c) ==
    LET At(j) ==
            IF j > Len(s) THEN <<s>>
            ELSE <<SubSeq(s, 1, j - 1)>>
                     \o SplitOn(SubSeq(s, j + 1, Len(s)), c)
    IN  At(IndexOfChar(s, 1, c))

RECURSIVE JoinWith(_, _)
\* Array.prototype.join
JoinWith(parts, c) ==
    IF Len(parts) = 0 THEN ""
    ELSE IF Len(parts) = 1 THEN parts[1]
    ELSE parts[1] \o c \o JoinWith(Tail(parts), c)

(***************************************************************************)
(* JavaScript values.                                                      *)
(***************************************************************************)
Null == [k |-> "null", n |-> 0, s |-> "", b |-> FALSE]
NaN == [k |-> "nan", n |-> 0, s |-> "", b |-> FALSE]
Num(i) == [k |-> "num", n |-> i, s |-> "", b |-> FALSE]
Str(t) == [k |-> "str", n |-> 0, s |-> t, b |-> FALSE]
Bool(v) == [k |-> "bool", n |-> 0, s |-> "", b |-> v]

RECURSIVE Pow10(_)
Pow10(e) == IF e = 0 THEN 1 ELSE 10 * Pow10(e - 1)

Scale == Pow10(FracDigits)

DigitVal(c) ==
    CASE c = "0" -> 0 [] c = "1" -> 1 [] c = "2" -> 2 [] c = "3" -> 3
      [] c = "4" -> 4 [] c = "5" -> 5 [] c = "6" -> 6 [] c = "7" -> 7
      [] c = "8" -> 8 [] c = "9" -> 9

DigitChar(d) ==
    CASE d = 0 -> "0" [] d = 1 -> "1" [] d = 2 -> "2" [] d = 3 -> "3"
      [] d = 4 -> "4" [] d = 5 -> "5" [] d = 6 -> "6" [] d = 7 -> "7"
      [] d = 8 -> "8" [] d = 9 -> "9"

RECURSIVE DigitsToNat(_)
DigitsToNat(s) ==
    IF Len(s) = 0 THEN 0
    ELSE 10 * DigitsToNat(SubSeq(s, 1, Len(s) - 1)) + DigitVal(Ch(s, Len(s)))

RECURSIVE NatToDigits(_)
NatToDigits(i) ==
    IF i < 10 THEN DigitChar(i)
    ELSE NatToDigits(i \div 10) \o DigitChar(i % 10)

\* the fraction digits of a decimal literal as units of 10^-FracDigits
\* (digits past FracDigits are dropped)
FracToUnits(s) ==
    IF Len(s) >= FracDigits THEN DigitsToNat(SubSeq(s, 1, FracDigits))
    ELSE DigitsToNat(s) * Pow10(FracDigits - Len(s))

\* parseFloat: the longest prefix, after leading white space, that is a
\* decimal literal [+-]digits[.digits]; NaN when there is none.  (Exponents
\* and Infinity do not occur in the texts of this model.)
ParseFloat(s0) ==
    LET \* the number of sign sgn with integer digits ip and fraction digits fp
        Value(sgn, ip, fp) ==
            IF Len(ip) = 0 /\ Len(fp) = 0 THEN NaN
            ELSE Num(sgn * (DigitsToNat(ip) * Scale + FracToUnits(fp)))
        \* the integer digits are s[i..j-1]
        Fraction(s, sgn, i, j) ==
            Value(sgn, SubSeq(s, i, j - 1),
                  IF j <= Len(s) /\ Ch(s, j) = "."
                  THEN SubSeq(s, j + 1, SkipWhile(s, j + 1, DigitClass) - 1)
                  ELSE "")
        \* the digits start at i
        Digs(s, sgn, i) == Fraction(s, sgn, i, SkipWhile(s, i, DigitClass))
        Signed(s) ==
            IF Len(s) >= 1 /\ Ch(s, 1) = "-" THEN Digs(s, 0 - 1, 2)
            ELSE IF Len(s) >= 1 /\ Ch(s, 1) = "+" THEN Digs(s, 1, 2)
            ELSE Digs(s, 1, 1)
    IN  Signed(Trim(s0))

RECURSIVE StripZeros(_)
StripZeros(s) ==
    IF Len(s) > 0 /\ Ch(s, Len(s)) = "0"
    THEN StripZeros(SubSeq(s, 1, Len(s) - 1))
    ELSE s

\* i written with at least w digits
PadDigits(i, w) ==
    LET Pad(d) ==
            IF Len(d) >= w THEN d
            ELSE SubSeq("000000000000", 1, w - Len(d)) \o d
    IN  Pad(NatToDigits(i))

\* Number.prototype.toString of a modelled number
NumToStr(i) ==
    LET Fraction(fr) == IF Len(fr) = 0 THEN "" ELSE "." \o fr
        Magnitude(mag) ==
            NatToDigits(mag \div Scale)
                \o Fraction(StripZeros(PadDigits(mag % Scale, FracDigits)))
    IN  IF i < 0 THEN "-" \o Magnitude(0 - i) ELSE Magnitude(i)

\* String(v)
JsString(v) ==
    CASE v.k = "num" -> NumToStr(v.n)
      [] v.k = "nan" -> "NaN"
      [] v.k = "str" -> v.s
      [] v.k = "bool" -> (IF v.b THEN "true" ELSE "false")
      [] v.k = "null" -> "null"

\* the truthiness of v
Truthy(v) ==
    CASE v.k = "num" -> v.n # 0
      [] v.k = "nan" -> FALSE
      [] v.k = "str" -> v.s # ""
      [] v.k = "bool" -> v.b
      [] v.k = "null" -> FALSE


(***************************************************************************)
(* app.js, parseParameters: the line patterns.                             *)
(***************************************************************************)
SetMax(S) == CHOOSE x \in S : \A y \in S : y <= x
SetMin(S) == CHOOSE x \in S : \A y \in S : x <= y

NoMatch ==
    [ok |-> FALSE, a |-> "", b |-> "", c |-> "", has |-> FALSE,
     from |-> 0, to |-> 0]

\* /^\/\/\s*\[([^\]]+)\]\s*$/ on a trimmed line; a is group 1
SectionMatch(s) ==
    LET Bracket(b) ==
            IF /\ StartsWith(s, 1, "//")
               /\ b <= Len(s) /\ Ch(s, b) = "["
               /\ IndexOfChar(s, b + 1, "]") = Len(s)
               /\ Len(s) > b + 1
            THEN [NoMatch EXCEPT !.ok = TRUE,
                                 !.a = SubSeq(s, b + 1, Len(s) - 1)]
            ELSE NoMatch
    IN  Bracket(SkipWhile(s, 3, SpaceClass))

\* a scan that no line stops (a mutant)
StopMatchNever(s) == FALSE

\* /^\s*(module|function)\s+/
StopMatch(s) ==
    LET Keyword(i) ==
            \E kw \in {"module", "function"} :
                /\ StartsWith(s, i, kw)
                /\ i + Len(kw) <= Len(s)
                /\ IsSpace(Ch(s, i + Len(kw)))
    IN  Keyword(SkipWhile(s, 1, SpaceClass))

\* \s*(?:\/\/\s*(.*))?$ at position t of s
StmtTailOK(s, t) ==
    LET Comment(u) ==
            \/ u > Len(s)
            \/ /\ StartsWith(s, u, "//")
               /\ AllChars(s, SkipWhile(s, u + 2, SpaceClass), Len(s), DotClass)
    IN  Comment(SkipWhile(s, t, SpaceClass))

\* the ends e (exclusive) of a lazy group (.+?) that starts at g and is
\* followed by \s*;\s*(?:\/\/\s*(.*))?$
ValueEnds(s, g) ==
    LET Delimiter(q) ==
            q <= Len(s) /\ Ch(s, q) = ";" /\ StmtTailOK(s, q + 1)
    IN  {e \in (g + 1)..Len(s) :
            /\ AllChars(s, g, e - 1, DotClass)
            /\ Delimiter(SkipWhile(s, e, SpaceClass))}

\* /^(NAME+)\s*=\s*(.+?)\s*;\s*(?:\/\/\s*(.*))?$/ on a trimmed line, NAME
\* being the class of the identifier: a, b, c are groups 1, 2, 3 and has
\* tells whether group 3 took part.  \s* after = is greedy (the latest start
\* of group 2 that lets the rest match), group 2 is lazy (its earliest end).
VarMatchWith(s, nameClass) ==
    LET \* the name ends before n1, group 2 is s[g..e-1] and the comment, if
        \* any, starts at u
        Groups(n1, g, e, u) ==
            [ok |-> TRUE,
             a |-> SubSeq(s, 1, n1 - 1),
             b |-> SubSeq(s, g, e - 1),
             c |-> IF u > Len(s) THEN ""
                   ELSE SubSeq(s, SkipWhile(s, u + 2, SpaceClass), Len(s)),
             has |-> u <= Len(s),
             from |-> g, to |-> e - 1]
        Rest(n1, g, e) ==
            Groups(n1, g, e,
                   SkipWhile(s, SkipWhile(s, e, SpaceClass) + 1, SpaceClass))
        Value(n1, g) == Rest(n1, g, SetMin(ValueEnds(s, g)))
        \* starts: the starts of group 2 that let the rest match
        Starts(n1, starts) ==
            IF starts = {} THEN NoMatch ELSE Value(n1, SetMax(starts))
        \* the = is at e1
        Assign(n1, e1) ==
            IF n1 > 1 /\ e1 <= Len(s) /\ Ch(s, e1) = "="
            THEN Starts(n1, {g \in (e1 + 1)..SkipWhile(s, e1 + 1, SpaceClass) :
                                ValueEnds(s, g) # {}})
            ELSE NoMatch
        Name(n1) == Assign(n1, SkipWhile(s, n1, SpaceClass))
    IN  Name(SkipWhile(s, 1, nameClass))

\* the identifier class [\w$] (OpenSCAD's own identifiers), used by a mutant
WordOrSigilClass == Class(WordClass.chars \cup {"$"})

NoCandidate == [ok |-> FALSE, name |-> "", rawValue |-> "", comment |-> ""]

\* a candidate whose pattern admits $ in the identifier and is not skipped
CandidateOfSigil(line) ==
    LET Of(m) ==
            IF ~m.ok THEN NoCandidate
            ELSE [ok |-> TRUE, name |-> m.a, rawValue |-> Trim(m.b),
                  comment |-> IF m.has /\ m.c # "" THEN Trim(m.c) ELSE ""]
    IN  Of(VarMatchWith(line, WordOrSigilClass))

\* the candidate assignment of a trimmed line: varMatch, name, rawValue,
\* comment, and the skip of the special variables
CandidateOf(line) ==
    LET Of(m) ==
            IF ~m.ok THEN NoCandidate
            ELSE IF StartsWith(m.a, 1, "$") THEN NoCandidate
            ELSE [ok |-> TRUE, name |-> m.a, rawValue |-> Trim(m.b),
                  comment |-> IF m.has /\ m.c # "" THEN Trim(m.c) ELSE ""]
    IN  Of(VarMatchWith(line, WordClass))

\* /^".*"$/
QuotedMatch(s) ==
    /\ Len(s) >= 2
    /\ Ch(s, 1) = "\"" /\ Ch(s, Len(s)) = "\""
    /\ AllChars(s, 2, Len(s) - 1, DotClass)

\* the literal of the right-hand side: type and value, or ok = FALSE for
\* what the code takes for an expression
ParseValue(rawValue) ==
    IF rawValue = "true" \/ rawValue = "false"
    THEN [ok |-> TRUE, type |-> "bool", value |-> Bool(rawValue = "true")]
    ELSE IF QuotedMatch(rawValue)
    THEN [ok |-> TRUE, type |-> "string",
          value |-> Str(SubSeq(rawValue, 2, Len(rawValue) - 1))]
    ELSE LET Number(numVal) ==
                 IF numVal.k # "nan"
                 THEN [ok |-> TRUE, type |-> "number", value |-> numVal]
                 ELSE [ok |-> FALSE, type |-> "number", value |-> Null]
         IN  Number(ParseFloat(rawValue))


(***************************************************************************)
(* app.js, parseParameters: the annotation of the trailing comment.        *)
(***************************************************************************)
NoOptions == [isnull |-> TRUE, items |-> <<>>]
Options(items) == [isnull |-> FALSE, items |-> items]

\* /^\[([^\]]+)\]$/ ; a is group 1
DropdownMatch(comment) ==
    IF /\ Len(comment) >= 3
       /\ Ch(comment, 1) = "["
       /\ IndexOfChar(comment, 2, "]") = Len(comment)
    THEN [NoMatch EXCEPT !.ok = TRUE,
                         !.a = SubSeq(comment, 2, Len(comment) - 1)]
    ELSE NoMatch

\* the end (exclusive) of a token -?[\d.]+ at position i, or 0
NumTokEnd(s, i) ==
    LET End(i1, j) == IF j > i1 THEN j ELSE 0
        From(i1) == End(i1, SkipWhile(s, i1, NumTokClass))
    IN  From(IF i <= Len(s) /\ Ch(s, i) = "-" THEN i + 1 ELSE i)

\* the position after \s*:\s* at position i, or 0
ColonEnd(s, i) ==
    LET Colon(w) ==
            IF w <= Len(s) /\ Ch(s, w) = ":"
            THEN SkipWhile(s, w + 1, SpaceClass) ELSE 0
    IN  Colon(SkipWhile(s, i, SpaceClass))

\* /^(-?[\d.]+)\s*:\s*(?:(-?[\d.]+)\s*:\s*)?(-?[\d.]+)$/ ; a, b, c are
\* groups 1, 2, 3 and has tells whether group 2 took part
RangeMatch(s) ==
    LET \* the tokens end before j1, j2, j3 and the colons end before c1, c2
        \* (0 where the part does not match)
        Tokens(j1, c1, j2, c2, j3) ==
            IF j3 # 0 /\ j3 = Len(s) + 1
            THEN [NoMatch EXCEPT !.ok = TRUE, !.a = SubSeq(s, 1, j1 - 1),
                                 !.b = SubSeq(s, c1, j2 - 1),
                                 !.c = SubSeq(s, c2, j3 - 1), !.has = TRUE]
            ELSE IF j2 # 0 /\ j2 = Len(s) + 1
            THEN [NoMatch EXCEPT !.ok = TRUE, !.a = SubSeq(s, 1, j1 - 1),
                                 !.c = SubSeq(s, c1, j2 - 1)]
            ELSE NoMatch
        Third(j1, c1, j2, c2) ==
            Tokens(j1, c1, j2, c2, IF c2 = 0 THEN 0 ELSE NumTokEnd(s, c2))
        Colon2(j1, c1, j2) ==
            Third(j1, c1, j2, IF j2 = 0 THEN 0 ELSE ColonEnd(s, j2))
        Second(j1, c1) ==
            Colon2(j1, c1, IF c1 = 0 THEN 0 ELSE NumTokEnd(s, c1))
        Colon1(j1) == Second(j1, IF j1 = 0 THEN 0 ELSE ColonEnd(s, j1))
    IN  Colon1(NumTokEnd(s, 1))

\* o.trim().replace(/^"|"$/g, '')
OptionToken(o) ==
    LET Last(t1) ==
            IF Len(t1) >= 1 /\ Ch(t1, Len(t1)) = "\""
            THEN SubSeq(t1, 1, Len(t1) - 1) ELSE t1
        First(t) ==
            Last(IF Len(t) >= 1 /\ Ch(t, 1) = "\"" THEN SubSeq(t, 2, Len(t))
                 ELSE t)
    IN  First(Trim(o))

\* the options of an enumeration with every token kept a string (a mutant)
DropdownOptionsStrings(inner, type) ==
    LET Items(toks) == [i \in 1..Len(toks) |-> Str(OptionToken(toks[i]))]
    IN  Items(SplitOn(inner, ","))

\* the options of an enumeration: the tokens, re-parsed as numbers where
\* the descriptor is numeric and the token parses
DropdownOptions(inner, type) ==
    LET Item(o, n) == IF type = "number" /\ n.k # "nan" THEN n ELSE Str(o)
        Token(o) == Item(o, ParseFloat(o))
        Items(toks) == [i \in 1..Len(toks) |-> Token(OptionToken(toks[i]))]
    IN  Items(SplitOn(inner, ","))

\* the constraints with the middle operand of a range taken for its
\* maximum and the last for its step (a mutant)
ParseConstraintsSwapped(param, comment) ==
    LET Range(p, dm, rm) ==
            IF rm.ok
            THEN [p EXCEPT
                     !.min = ParseFloat(rm.a),
                     !.step = IF rm.has THEN ParseFloat(rm.c) ELSE Null,
                     !.max = IF rm.has THEN ParseFloat(rm.b)
                             ELSE ParseFloat(rm.c),
                     !.type = "number",
                     !.options = NoOptions]
            ELSE [p EXCEPT
                     !.options = Options(DropdownOptions(dm.a, p.type))]
        Bracket(p, dm) ==
            IF ~dm.ok THEN [p EXCEPT !.description = comment]
            ELSE Range(p, dm, RangeMatch(dm.a))
        With(p) ==
            IF comment = "" THEN p ELSE Bracket(p, DropdownMatch(comment))
    IN  With(param)

\* the constraints with the maximum of a range assigned only along with a
\* step (a mutant)
ParseConstraintsMaxInStep(param, comment) ==
    LET Range(p, dm, rm) ==
            IF rm.ok
            THEN [p EXCEPT
                     !.min = ParseFloat(rm.a),
                     !.step = IF rm.has THEN ParseFloat(rm.b) ELSE Null,
                     !.max = IF rm.has THEN ParseFloat(rm.c) ELSE Null,
                     !.type = "number",
                     !.options = NoOptions]
            ELSE [p EXCEPT
                     !.options = Options(DropdownOptions(dm.a, p.type))]
        Bracket(p, dm) ==
            IF ~dm.ok THEN [p EXCEPT !.description = comment]
            ELSE Range(p, dm, RangeMatch(dm.a))
        With(p) ==
            IF comment = "" THEN p ELSE Bracket(p, DropdownMatch(comment))
    IN  With(param)

\* the constraints a comment adds to a descriptor
ParseConstraints(param, comment) ==
    LET Range(p, dm, rm) ==
            IF rm.ok
            THEN [p EXCEPT
                     !.min = ParseFloat(rm.a),
                     !.step = IF rm.has THEN ParseFloat(rm.b) ELSE Null,
                     !.max = ParseFloat(rm.c),
                     !.type = "number",
                     !.options = NoOptions]
            ELSE [p EXCEPT
                     !.options = Options(DropdownOptions(dm.a, p.type))]
        Bracket(p, dm) ==
            IF ~dm.ok THEN [p EXCEPT !.description = comment]
            ELSE Range(p, dm, RangeMatch(dm.a))
        With(p) ==
            IF comment = "" THEN p ELSE Bracket(p, DropdownMatch(comment))
    IN  With(param)

(***************************************************************************)
(* app.js, parseParameters.                                                *)
(***************************************************************************)
\* what one line of the text gives: a section header, the stop at a
\* module or function definition, a descriptor, or nothing
ParseLine(lines, i, currentSection) ==
    LET Param(cand, pv) ==
            IF ~pv.ok THEN [kind |-> "skip"]
            ELSE [kind |-> "param",
                  param |-> ParseConstraints(
                      [name |-> cand.name, section |-> currentSection,
                       line |-> i - 1, rawLine |-> lines[i],
                       comment |-> cand.comment, description |-> "",
                       type |-> pv.type, value |-> pv.value,
                       options |-> NoOptions,
                       min |-> Null, max |-> Null, step |-> Null],
                      cand.comment)]
        Candidate(cand) ==
            IF ~cand.ok THEN [kind |-> "skip"]
            ELSE Param(cand, ParseValue(cand.rawValue))
        Section(line, sm) ==
            IF sm.ok THEN [kind |-> "section", section |-> Str(Trim(sm.a))]
            ELSE IF StopMatch(line) THEN [kind |-> "break"]
            ELSE Candidate(CandidateOf(line))
        Line(line) == Section(line, SectionMatch(line))
    IN  Line(Trim(lines[i]))

RECURSIVE ScanLinesPrepend(_, _, _, _)
\* the loop with every descriptor put at the head of the list (a mutant)
ScanLinesPrepend(lines, i, currentSection, params) ==
    LET Step(r) ==
            CASE r.kind = "section" ->
                     ScanLinesPrepend(lines, i + 1, r.section, params)
              [] r.kind = "break" -> params
              [] r.kind = "skip" ->
                     ScanLinesPrepend(lines, i + 1, currentSection, params)
              [] r.kind = "param" ->
                     ScanLinesPrepend(lines, i + 1, currentSection,
                                      <<r.param>> \o params)
    IN  IF i > Len(lines) THEN params
        ELSE Step(ParseLine(lines, i, currentSection))

RECURSIVE ScanLines(_, _, _, _)
\* the loop over the lines, from line i (one-based) on
ScanLines(lines, i, currentSection, params) ==
    LET Step(r) ==
            CASE r.kind = "section" ->
                     ScanLines(lines, i + 1, r.section, params)
              [] r.kind = "break" -> params
              [] r.kind = "skip" ->
                     ScanLines(lines, i + 1, currentSection, params)
              [] r.kind = "param" ->
                     ScanLines(lines, i + 1, currentSection,
                               Append(params, r.param))
    IN  IF i > Len(lines) THEN params
        ELSE Step(ParseLine(lines, i, currentSection))

ParseParameters(source) == ScanLines(SplitOn(source, "\n"), 1, Null, <<>>)


(***************************************************************************)
(* app.js, buildModifiedSource.                                            *)
(***************************************************************************)
\* the literal text of a descriptor's value
NewValue(p) ==
    IF p.type = "bool" THEN (IF Truthy(p.value) THEN "true" ELSE "false")
    ELSE IF p.type = "string" THEN "\"" \o JsString(p.value) \o "\""
    ELSE JsString(p.value)

\* the ends e (exclusive) of a lazy .+? that starts at g and is followed by
\* the group (\s*;.*) and the end of the line
ReplaceEnds(s, g) ==
    LET Delimiter(q) ==
            /\ q <= Len(s) /\ Ch(s, q) = ";"
            /\ AllChars(s, q + 1, Len(s), DotClass)
    IN  {e \in (g + 1)..Len(s) :
            /\ AllChars(s, g, e - 1, DotClass)
            /\ Delimiter(SkipWhile(s, e, SpaceClass))}

\* /^(\s*\w+\s*=\s*).+?(\s*;.*)$/ on a line of the text; a and b are
\* groups 1 and 2
ReplaceMatch(s) ==
    LET \* the replaced part is s[g..e-1]
        Groups(g, e) ==
            [NoMatch EXCEPT !.ok = TRUE,
                            !.a = SubSeq(s, 1, g - 1),
                            !.b = SubSeq(s, e, Len(s))]
        Value(g) == Groups(g, SetMin(ReplaceEnds(s, g)))
        \* starts: the starts of .+? that let the rest match
        Starts(starts) ==
            IF starts = {} THEN NoMatch ELSE Value(SetMax(starts))
        \* the name is s[p0..n1-1] and the = is at e1
        Assign(p0, n1, e1) ==
            IF n1 > p0 /\ e1 <= Len(s) /\ Ch(s, e1) = "="
            THEN Starts({g \in (e1 + 1)..SkipWhile(s, e1 + 1, SpaceClass) :
                            ReplaceEnds(s, g) # {}})
            ELSE NoMatch
        Name(p0, n1) == Assign(p0, n1, SkipWhile(s, n1, SpaceClass))
        Indent(p0) == Name(p0, SkipWhile(s, p0, WordClass))
    IN  Indent(SkipWhile(s, 1, SpaceClass))

RECURSIVE Substitute(_, _, _, _)
\* the expansion of a replacement template of String.prototype.replace for
\* a pattern with two groups g1, g2 whose match is the whole string:
\* $$, $&, $` and $' (both empty here), $1, $2, $01, $02
Substitute(t, g1, g2, whole) ==
    IF Len(t) = 0 THEN ""
    ELSE IF Ch(t, 1) # "$" \/ Len(t) = 1
    THEN Ch(t, 1) \o Substitute(SubSeq(t, 2, Len(t)), g1, g2, whole)
    ELSE LET c == Ch(t, 2)
             rest2 == SubSeq(t, 3, Len(t))
             rest3 == SubSeq(t, 4, Len(t))
         IN  CASE c = "$" -> "$" \o Substitute(rest2, g1, g2, whole)
               [] c = "&" -> whole \o Substitute(rest2, g1, g2, whole)
               [] c \in {"`", "'"} -> Substitute(rest2, g1, g2, whole)
               [] c = "0" /\ Len(t) >= 3 /\ Ch(t, 3) = "1" ->
                      g1 \o Substitute(rest3, g1, g2, whole)
               [] c = "0" /\ Len(t) >= 3 /\ Ch(t, 3) = "2" ->
                      g2 \o Substitute(rest3, g1, g2, whole)
               [] c = "1" -> g1 \o Substitute(rest2, g1, g2, whole)
               [] c = "2" -> g2 \o Substitute(rest2, g1, g2, whole)
               [] OTHER -> "$" \o Substitute(SubSeq(t, 2, Len(t)),
                                             g1, g2, whole)

\* original.replace(/^(\s*\w+\s*=\s*).+?(\s*;.*)$/, `$1${newValue}$2`)
ReplaceValue(original, newValue) ==
    LET Replaced(m) ==
            IF ~m.ok THEN original
            ELSE Substitute("$1" \o newValue \o "$2", m.a, m.b, original)
    IN  Replaced(ReplaceMatch(original))

RECURSIVE ApplyParams(_, _, _)
\* the loop over the descriptors, from descriptor k on
ApplyParams(lines, params, k) ==
    IF k > Len(params) THEN lines
    ELSE LET p == params[k]
         IN  ApplyParams(
                 [lines EXCEPT ![p.line + 1] =
                                   ReplaceValue(lines[p.line + 1], NewValue(p))],
                 params, k + 1)

\* the text rebuilt from trimmed lines, as the extractor reads them
BuildModifiedSourceTrimmed(originalSource, params) ==
    LET raw == SplitOn(originalSource, "\n")
        lines == [i \in 1..Len(raw) |-> Trim(raw[i])]
    IN  JoinWith(ApplyParams(lines, params, 1), "\n")

BuildModifiedSource(originalSource, params) ==
    JoinWith(ApplyParams(SplitOn(originalSource, "\n"), params, 1), "\n")


(***************************************************************************)
(* app.js, renderParams: the values the control of a descriptor can give   *)
(* it (the listeners of the checkbox, select, range, number and text       *)
(* inputs).                                                                *)
(***************************************************************************)
\* the numbers typed or dragged to, and the texts typed
EditNumbers == {ParseFloat("7").n, ParseFloat("2.5").n}
EditStrings == {"c", "a$\";", "$&"}

\* the step of the range input: p.step || ((p.max - p.min) <= 10 ? 0.1 : 1),
\* a step that is not a positive number falling back to 1
RangeStep(p, lo, hi) ==
    IF p.step.k = "num" /\ p.step.n > 0 THEN p.step.n
    ELSE IF p.step.k = "num" /\ p.step.n < 0 THEN Scale
    ELSE IF hi - lo <= 10 * Scale THEN Scale \div 10 ELSE Scale

\* the values of a range input between min and max
RangeValues(p) ==
    LET lo == IF p.min.k = "num" THEN p.min.n ELSE 0
        hi0 == IF p.max.k = "num" THEN p.max.n ELSE 100 * Scale
        hi == IF hi0 < lo THEN lo ELSE hi0
        st == RangeStep(p, lo, hi)
    IN  {Num(v) : v \in {w \in EditNumbers \cup {lo, hi} :
                            lo <= w /\ w <= hi /\ (w - lo) % st = 0}}

WidgetValues(p) ==
    IF p.type = "bool" THEN {Bool(TRUE), Bool(FALSE)}
    ELSE IF ~p.options.isnull
    THEN {IF p.type = "number"
          THEN ParseFloat(JsString(p.options.items[i]))
          ELSE Str(JsString(p.options.items[i])) :
             i \in 1..Len(p.options.items)}
    ELSE IF p.type = "number" /\ p.min.k # "null" /\ p.max.k # "null"
    THEN RangeValues(p)
    ELSE IF p.type = "number" THEN {Num(v) : v \in EditNumbers} \cup {NaN}
    ELSE {Str(t) : t \in EditStrings}

(***************************************************************************)
(* The texts read.                                                         *)
(***************************************************************************)
\* the lines of the texts of the text specification
TextLines ==
    {"x = 5;",
     "  r = 1.50 ; // [1:9]",
     "s = \"a;b\"; // d",
     "t = \"ab\"; // [ab, cd]",
     "b = true;\r",
     "x = 10 * 2;",
     "y = x + 1;",
     "$fn = 64;",
     "// [Dims]",
     "module m() {",
     " cube(5);",
     "n = 64; // [16, 32]"}

TextSources ==
    {JoinWith(ls, "\n") :
        ls \in UNION {[1..n -> TextLines] : n \in 1..MaxLines}}

\* the texts of the scan specification: section headers, assignments and
\* the beginnings of module and function definitions
ScanTextLines ==
    {"// [A]", "//[ B c ] ", "b = true;", "modules = false;",
     " module m() {", "function f(x) = x;"}
ScanSources ==
    {JoinWith(ls, "\n") :
        ls \in UNION {[1..n -> ScanTextLines] : n \in 1..(MaxLines + 1)}}

\* the one-line texts of the annotation specification: an assignment of a
\* number, a string or a bool with a trailing comment
AnnotAssignments == {"n = 64;", "s = \"ab\";", "b = true;"}
AnnotComments ==
    {"[1:9]", "[5:0.5:40]", "[-1 : .5 : 2]", "[1:2:3:4]", "[.:9]", "[+1:9]",
     "[ 1:9]", "[16, 32, q]", "[16, \"32, q\"]", "[ \"a\" ,b]", "[a\", \"b]", "[redondo]",
     "[1:9] mm", "d"}
AnnotSources ==
    {a \o " // " \o c : a \in AnnotAssignments, c \in AnnotComments}

(***************************************************************************)
(* worker.js: constants and pure helpers.                                  *)
(***************************************************************************)
BATCH_SIZE == 15

\* the message of the error thrown when /output.stl cannot be read
StlMissing == "Arquivo STL de saida nao foi gerado. Verifique seu codigo .scad."

\* /(?:include|use)\s*<\s*BOSL2\//
NeedsBOSL2(source) ==
    \E i \in 1..Len(source) : \E kw \in {"include", "use"} :
        /\ StartsWith(source, i, kw)
        /\ LET a == SkipWhile(source, i + Len(kw), SpaceClass)
           IN  /\ StartsWith(source, a, "<")
               /\ StartsWith(source, SkipWhile(source, a + 1, SpaceClass),
                             "BOSL2/")

EndsWith(s, t) ==
    /\ Len(t) <= Len(s)
    /\ SubSeq(s, Len(s) - Len(t) + 1, Len(s)) = t

RECURSIVE SelectScad(_)
SelectScad(names) ==
    IF Len(names) = 0 THEN <<>>
    ELSE (IF EndsWith(Head(names), ".scad") THEN <<Head(names)>> ELSE <<>>)
             \o SelectScad(Tail(names))

\* data.files.map(strip the leading /).filter(name ends with .scad)
FileListOf(listing) ==
    SelectScad([i \in 1..Len(listing) |->
                   IF StartsWith(listing[i], 1, "/")
                   THEN SubSeq(listing[i], 2, Len(listing[i]))
                   ELSE listing[i]])

\* the whole rest of the list from i (a mutant)
BatchOfRest(fileList, i) == SubSeq(fileList, i + 1, Len(fileList))

\* fileList.slice(i, i + BATCH_SIZE), i zero-based
BatchOf(fileList, i) ==
    SubSeq(fileList, i + 1,
           IF i + BATCH_SIZE < Len(fileList) THEN i + BATCH_SIZE
           ELSE Len(fileList))

\* the body the CDN serves for a file of the library
BodyOf(name) == "// BOSL2 " \o name

EmptyMap == [x \in {} |-> ""]
NoFiles == [isnull |-> TRUE, files |-> EmptyMap]
FileSet(m) == [isnull |-> FALSE, files |-> m]

\* the file area of a new engine instance
EmptyFS == [files |-> EmptyMap, dirs |-> {"/"}]

WriteFile(fs, path, content) ==
    [fs EXCEPT !.files = (path :> content) @@ fs.files]

\* the directories above a relative name, under root
DirsOf(root, name) ==
    LET parts == SplitOn(name, "/")
    IN  {root \o "/" \o JoinWith(SubSeq(parts, 1, k), "/") :
            k \in 1..(Len(parts) - 1)}

WriteBOSL2ToFS(fs, bosl2Files) ==
    [files |-> [q \in {"/BOSL2/" \o n : n \in DOMAIN bosl2Files} |->
                   bosl2Files[SubSeq(q, 8, Len(q))]] @@ fs.files,
     dirs |-> fs.dirs \cup {"/BOSL2"}
                  \cup UNION {DirsOf("/BOSL2", n) : n \in DOMAIN bosl2Files}]

\* the expression of one -D flag with a string left without quotes (a
\* mutant)
DFlagExprUnquoted(p) ==
    IF p.type = "bool"
    THEN p.name \o "=" \o (IF Truthy(p.value) THEN "true" ELSE "false")
    ELSE p.name \o "=" \o JsString(p.value)

\* the expression of one -D flag
DFlagExpr(p) ==
    IF p.type = "string"
    THEN p.name \o "=\"" \o JsString(p.value) \o "\""
    ELSE IF p.type = "bool"
    THEN p.name \o "=" \o (IF Truthy(p.value) THEN "true" ELSE "false")
    ELSE p.name \o "=" \o JsString(p.value)

RECURSIVE BuildDFlags(_)
BuildDFlags(params) ==
    IF Len(params) = 0 THEN <<>>
    ELSE <<"-D", DFlagExpr(Head(params))>> \o BuildDFlags(Tail(params))

MainArgs(params) ==
    <<"/input.scad", "-o", "/output.stl">>
        \o (IF Len(params) > 0 THEN BuildDFlags(params) ELSE <<>>)

\* the bytes the engine writes to the output path: they are determined by
\* the input file and the arguments of the run
ArtifactOf(fs, args) ==
    "STL{" \o fs.files["/input.scad"] \o "}{" \o JoinWith(args, " ") \o "}"

\* the messages of the channel from the worker; rid is the request the
\* message belongs to (not part of the message)
LogMsg(r, text, level) ==
    [type |-> "log", rid |-> r, text |-> text, level |-> level, stl |-> ""]
ResultMsg(r, stl) ==
    [type |-> "result", rid |-> r, text |-> "", level |-> "", stl |-> stl]
ErrorMsg(r, message) ==
    [type |-> "error", rid |-> r, text |-> message, level |-> "", stl |-> ""]

\* paramOverrides of the click handler
Overrides(params) ==
    [k \in 1..Len(params) |->
        [name |-> params[k].name, value |-> params[k].value,
         type |-> params[k].type]]

\* the compile message posted with the synthesized text (a mutant)
CompileMessageSynth(source, params, r) ==
    [type |-> "compile", rid |-> r,
     scadSource |-> BuildModifiedSource(source, params),
     params |-> Overrides(params)]

\* the compile message of the click handler
CompileMessage(source, params, r) ==
    [type |-> "compile", rid |-> r, scadSource |-> source,
     params |-> Overrides(params)]

(***************************************************************************)
(* The network and the files read.                                         *)
(***************************************************************************)
RECURSIVE LibNames(_)
\* n file names of the library
LibNames(n) ==
    IF n = 0 THEN <<>>
    ELSE Append(LibNames(n - 1), "/f" \o NatToDigits(n) \o ".scad")

\* the network: the listings the CDN can serve, with the files whose fetch
\* can fail, and whether the script of the worker loads
SmallCDN ==
    [listing |-> <<"/std.scad", "/README.md", "sub/x.scad">>,
     flaky |-> {"std.scad", "sub/x.scad"}, script |-> TRUE]
BigCDN ==
    [listing |-> LibNames(BATCH_SIZE + 2),
     flaky |-> {"f1.scad", "f" \o NatToDigits(BATCH_SIZE + 1) \o ".scad"},
     script |-> TRUE]
EmptyCDN == [listing |-> <<"/LICENSE">>, flaky |-> {}, script |-> TRUE]
TinyCDN == [listing |-> <<"/std.scad">>, flaky |-> {}, script |-> TRUE]
NoScript == [TinyCDN EXCEPT !.script = FALSE]

\* the ways the engine run can complete: callMain returns zero or non-zero,
\* throws an exit status, or throws an error that has no status
EngineOutcomes == {"return0", "return1", "exit", "abort"}

\* an engine build that can complete in every way, and one that returns
\* zero and prints nothing
AnyEngine == [outcomes |-> EngineOutcomes, prints |-> BOOLEAN]
QuietEngine == [outcomes |-> {"return0"}, prints |-> {FALSE}]

\* the texts and overrides of the requests of the worker specification
WorkerSources == {"cube(5);", "include <BOSL2/std.scad>\ncube(5);"}
WorkerParams ==
    {<<>>,
     <<[name |-> "x", value |-> Num(7 * Scale), type |-> "number"]>>,
     <<[name |-> "s", value |-> Str("ab"), type |-> "string"],
       [name |-> "b", value |-> Bool(FALSE), type |-> "bool"],
       [name |-> "r", value |-> Num((3 * Scale) \div 2), type |-> "number"],
       [name |-> "t", value |-> Str("cd"), type |-> "number"]>>}

\* the files loaded in the application specification
AppSources ==
    {"x = 5;\ncube(x);",
     "use <BOSL2/std.scad>\nt = \"ab\"; // [ab, cd]"}

(***************************************************************************)
(* State.                                                                  *)
(***************************************************************************)
VARIABLES
    currentScadSource,  \* app.js: the text of the loaded file, or Null
    currentParams,      \* app.js: the descriptors of the loaded file
    currentStlBuffer,   \* app.js: the artifact of the last result, or ""
    isCompiling,        \* app.js
    worker,             \* app.js: whether the worker has been created
    btnCompileDisabled, \* app.js: btnCompile.disabled
    btnDownloadDisabled,\* app.js: btnDownload.disabled
    inbox,              \* messages posted to the worker, not yet handled
    outbox,             \* messages posted by the worker, not yet handled
    createOpenSCAD,     \* worker.js: whether the factory is loaded
    bosl2Cache,         \* worker.js: the cached file set, or NoFiles
    procs,              \* worker.js: the invocations of the message handler
    nextRid,            \* the number of the next compile request
    cdn,                \* the listing the CDN serves
    engine,             \* the behaviours of the engine build
    textIn,             \* the text of the file being read
    synth               \* the last application of buildModifiedSource

mainVars ==
    <<currentScadSource, currentParams, currentStlBuffer, isCompiling,
      worker, btnCompileDisabled, btnDownloadDisabled>>
chanVars == <<inbox, outbox>>
workerVars == <<createOpenSCAD, bosl2Cache, procs, nextRid, cdn, engine>>
textVars == <<textIn, synth>>
vars == <<mainVars, chanVars, workerVars, textVars>>

NoSynth == [done |-> FALSE, source |-> "", params |-> <<>>, out |-> ""]

(***************************************************************************)
(* app.js, main thread: file load and editing.                             *)
(***************************************************************************)
\* reader.onload of handleFile, the file read being src; parsed is
\* parseParameters(src), computed by the caller
ReaderOnload(src, parsed) ==
    /\ currentScadSource' = Str(src)
    /\ btnCompileDisabled' = FALSE
    /\ currentParams' = parsed
    /\ synth' = NoSynth
    /\ UNCHANGED <<currentStlBuffer, isCompiling, worker,
                   btnDownloadDisabled, chanVars, workerVars>>

\* a listener of renderParams: the control of descriptor i takes value v
EditParam(i, v) ==
    /\ i \in 1..Len(currentParams)
    /\ v \in WidgetValues(currentParams[i])
    /\ v # currentParams[i].value
    /\ currentParams' = [currentParams EXCEPT ![i].value = v]
    /\ synth' = NoSynth
    /\ UNCHANGED <<currentScadSource, currentStlBuffer, isCompiling, worker,
                   btnCompileDisabled, btnDownloadDisabled, textIn,
                   chanVars, workerVars>>

(***************************************************************************)
(* app.js, main thread: the compile control and the worker's messages.     *)
(***************************************************************************)
\* setCompiling(state)
SetCompiling(state) ==
    /\ isCompiling' = state
    /\ btnCompileDisabled' = state

\* the click listener of btnCompile (a disabled button gets no click)
BtnCompileClick ==
    /\ ~btnCompileDisabled
    /\ nextRid <= MaxReq
    /\ IF ~Truthy(currentScadSource) \/ isCompiling
       THEN UNCHANGED vars
       ELSE /\ SetCompiling(TRUE)
            /\ worker' = TRUE
            /\ inbox' = Append(inbox,
                               CompileMessage(currentScadSource.s,
                                              currentParams, nextRid))
            /\ nextRid' = nextRid + 1
            /\ UNCHANGED <<currentScadSource, currentParams,
                           currentStlBuffer, btnDownloadDisabled, outbox,
                           createOpenSCAD, bosl2Cache, procs, cdn, engine,
                           textVars>>

\* the message listener of the worker object
OnWorkerMessage ==
    /\ outbox # <<>>
    /\ outbox' = Tail(outbox)
    /\ LET msg == Head(outbox)
       IN  CASE msg.type = "log" ->
                    UNCHANGED <<currentStlBuffer, isCompiling,
                                btnCompileDisabled, btnDownloadDisabled>>
             [] msg.type = "result" ->
                    /\ currentStlBuffer' = msg.stl
                    /\ SetCompiling(FALSE)
                    /\ btnDownloadDisabled' = FALSE
             [] msg.type = "error" ->
                    /\ SetCompiling(FALSE)
                    /\ UNCHANGED <<currentStlBuffer, btnDownloadDisabled>>
    /\ UNCHANGED <<currentScadSource, currentParams, worker, inbox,
                   workerVars, textVars>>

\* the error listener of the worker object.  The handler of the worker
\* catches every error of compile, so the error reported is the failure of
\* the worker's script: it comes once, after the first click has made the
\* worker, and the worker takes no message.
OnWorkerError ==
    /\ worker
    /\ ~cdn.script
    /\ isCompiling /\ Len(inbox) = 1
    /\ SetCompiling(FALSE)
    /\ UNCHANGED <<currentScadSource, currentParams, currentStlBuffer,
                   worker, btnDownloadDisabled, chanVars, workerVars,
                   textVars>>

(***************************************************************************)
(* worker.js: the message handler and compile.  Each action is the code    *)
(* run between two awaits of one invocation r of the handler.  The fetches *)
(* of a batch complete in the order of the batch: their completions only   *)
(* return values that Promise.all collects by position.                    *)
(***************************************************************************)
NewProc(msg) ==
    [pc |-> "loadFactory", scadSource |-> msg.scadSource,
     params |-> msg.params, bosl2Files |-> NoFiles, fileList |-> <<>>,
     i |-> 0, pending |-> <<>>, results |-> <<>>, files |-> EmptyMap,
     downloaded |-> 0,
     \* what the invocation has done
     cachedAtStart |-> ~bosl2Cache.isnull, fetches |-> 0, instances |-> 0,
     ran |-> FALSE, exit |-> "none", fs |-> EmptyFS, args |-> <<>>,
     succeeded |-> {},
     \* what the invocations before it have done: how many of them issued
     \* fetches for the library, and how often bosl2Cache was assigned
     fetchedBefore |-> SetMax({0} \cup {procs[r].fetchedBefore
                                  + (IF procs[r].fetches > 0 THEN 1 ELSE 0) :
                                        r \in DOMAIN procs}),
     assigns |-> SetMax({0} \cup {procs[r].assigns : r \in DOMAIN procs})]

Live == {r \in DOMAIN procs : procs[r].pc # "done"}

\* the locals of a finished invocation are gone
Finished(pr) ==
    [pr EXCEPT !.pc = "done", !.fileList = <<>>, !.i = 0, !.pending = <<>>,
               !.results = <<>>, !.files = EmptyMap, !.downloaded = 0]

\* self.addEventListener('message', ...): a compile message starts compile
OnMessage ==
    /\ cdn.script
    /\ inbox # <<>>
    /\ inbox' = Tail(inbox)
    /\ procs' = (Head(inbox).rid :> NewProc(Head(inbox)))
                    @@ [r \in Live |-> procs[r]]
    /\ UNCHANGED <<mainVars, outbox, createOpenSCAD, bosl2Cache, nextRid,
                   cdn, engine, textVars>>

\* loadFactory importing whatever the cache holds (a mutant)
LoadFactoryAlways(r) ==
    /\ procs[r].pc = "loadFactory"
    /\ procs' = [procs EXCEPT ![r].pc = "import"]
    /\ outbox' = Append(outbox,
           LogMsg(r, "Carregando OpenSCAD WASM", "info"))
    /\ UNCHANGED <<mainVars, inbox, createOpenSCAD, bosl2Cache, nextRid,
                   cdn, engine, textVars>>

\* loadFactory up to the import
LoadFactory(r) ==
    /\ procs[r].pc = "loadFactory"
    /\ IF createOpenSCAD
       THEN /\ procs' = [procs EXCEPT ![r].pc = "needsBOSL2"]
            /\ UNCHANGED outbox
       ELSE /\ procs' = [procs EXCEPT ![r].pc = "import"]
            /\ outbox' = Append(outbox,
                   LogMsg(r, "Carregando OpenSCAD WASM", "info"))
    /\ UNCHANGED <<mainVars, inbox, createOpenSCAD, bosl2Cache, nextRid,
                   cdn, engine, textVars>>

\* the import of the factory settles
ImportDone(r, ok) ==
    /\ procs[r].pc = "import"
    /\ IF ok
       THEN /\ createOpenSCAD' = TRUE
            /\ procs' = [procs EXCEPT ![r].pc = "needsBOSL2"]
            /\ outbox' = Append(outbox,
                   LogMsg(r, "OpenSCAD WASM carregado", "success"))
       ELSE /\ UNCHANGED createOpenSCAD
            /\ procs' = [procs EXCEPT ![r] = Finished(@)]
            /\ outbox' = outbox \o
                   <<LogMsg(r, "Erro ao carregar OpenSCAD WASM", "error"),
                     ErrorMsg(r, "import failed")>>
    /\ UNCHANGED <<mainVars, inbox, bosl2Cache, nextRid, cdn, engine,
                   textVars>>

\* the fetches of the batch that starts at i are issued
StartBatch(pr, i) ==
    [pr EXCEPT !.pc = "batch", !.i = i,
               !.pending = BatchOf(pr.fileList, i), !.results = <<>>,
               !.fetches = @ + Len(BatchOf(pr.fileList, i))]

\* the end of loadBOSL2 with an empty body for every file that was not
\* fetched (a mutant)
LoadedBOSL2Padded(pr, files) ==
    [pr EXCEPT !.pc = "init",
               !.bosl2Files =
                   FileSet([n \in {pr.fileList[k] : k \in 1..Len(pr.fileList)}
                               |-> IF n \in DOMAIN files THEN files[n]
                                   ELSE ""]),
               !.pending = <<>>, !.results = <<>>]

\* the end of loadBOSL2: the file set is cached and returned
LoadedBOSL2(pr, files) ==
    [pr EXCEPT !.pc = "init", !.bosl2Files = FileSet(files),
               !.pending = <<>>, !.results = <<>>]

\* loadBOSL2 with a cache that is used only when it holds a file (a mutant)
CacheHitNonEmpty(cache) == ~cache.isnull /\ DOMAIN cache.files # {}

\* loadBOSL2 without its test of the cache (a mutant)
CacheHitNever(cache) == FALSE

\* if (bosl2Cache): a Map, empty or not, is a hit
CacheHit(cache) == ~cache.isnull

\* needsBOSL2, and loadBOSL2 up to the fetch of the listing
CheckBOSL2(r) ==
    /\ procs[r].pc = "needsBOSL2"
    /\ IF ~NeedsBOSL2(procs[r].scadSource)
       THEN /\ procs' = [procs EXCEPT ![r].pc = "init"]
            /\ UNCHANGED outbox
       ELSE IF CacheHit(bosl2Cache)
       THEN /\ procs' = [procs EXCEPT ![r].pc = "init",
                                      ![r].bosl2Files = bosl2Cache]
            /\ UNCHANGED outbox
       ELSE /\ procs' = [procs EXCEPT ![r].pc = "listing",
                                      ![r].fetches = @ + 1]
            /\ outbox' = Append(outbox,
                   LogMsg(r, "Carregando biblioteca BOSL2", "info"))
    /\ UNCHANGED <<mainVars, inbox, createOpenSCAD, bosl2Cache, nextRid,
                   cdn, engine, textVars>>

\* the catch of the listing that leaves an empty file set in the cache (a
\* mutant)
ListingFailedCached(r) ==
    /\ procs' = [procs EXCEPT ![r] = Finished(@)]
    /\ outbox' = outbox \o
           <<LogMsg(r, "Erro ao listar arquivos BOSL2", "error"),
             ErrorMsg(r, "listing failed")>>
    /\ bosl2Cache' = FileSet(EmptyMap)

\* the catch of the listing: the error is logged and thrown on, and the
\* handler posts it
ListingFailed(r) ==
    /\ procs' = [procs EXCEPT ![r] = Finished(@)]
    /\ outbox' = outbox \o
           <<LogMsg(r, "Erro ao listar arquivos BOSL2", "error"),
             ErrorMsg(r, "listing failed")>>
    /\ UNCHANGED bosl2Cache

\* the fetch of the listing settles
ListingDone(r, ok) ==
    /\ procs[r].pc = "listing"
    /\ LET fileList == FileListOf(cdn.listing)
           found == LogMsg(r, "BOSL2: " \o NatToDigits(Len(fileList))
                                  \o " arquivos encontrados", "info")
       IN  IF ~ok
           THEN ListingFailed(r)
           ELSE IF Len(fileList) = 0
           THEN /\ procs' = [procs EXCEPT
                       ![r] = LoadedBOSL2([@ EXCEPT !.fileList = fileList,
                                                    !.assigns = @ + 1],
                                          EmptyMap)]
                /\ outbox' = outbox \o
                       <<found, LogMsg(r, "BOSL2 carregada: 0 arquivos",
                                       "success")>>
                /\ bosl2Cache' = FileSet(EmptyMap)
           ELSE /\ procs' = [procs EXCEPT
                       ![r] = StartBatch([@ EXCEPT !.fileList = fileList], 0)]
                /\ outbox' = Append(outbox, found)
                /\ UNCHANGED bosl2Cache
    /\ UNCHANGED <<mainVars, inbox, createOpenSCAD, nextRid, cdn, engine,
                   textVars>>

\* one fetch of the batch settles: ok, or null for an error or a response
\* that is not OK
FetchDone(r, ok) ==
    /\ procs[r].pc = "batch"
    /\ procs[r].pending # <<>>
    /\ ok \/ Head(procs[r].pending) \in cdn.flaky
    /\ procs' = [procs EXCEPT
           ![r].pending = Tail(@),
           ![r].results = Append(@, [name |-> Head(procs[r].pending),
                                     ok |-> ok]),
           ![r].succeeded = IF ok THEN @ \cup {Head(procs[r].pending)}
                            ELSE @]
    /\ UNCHANGED <<mainVars, chanVars, createOpenSCAD, bosl2Cache, nextRid,
                   cdn, engine, textVars>>

\* Promise.all of the batch resolves: the results are stored, progress is
\* logged and the next batch starts or loadBOSL2 ends
BatchDone(r) ==
    /\ procs[r].pc = "batch"
    /\ procs[r].pending = <<>>
    /\ LET pr == procs[r]
           got == {k \in 1..Len(pr.results) : pr.results[k].ok}
           files == [n \in {pr.results[k].name : k \in got} |-> BodyOf(n)]
                        @@ pr.files
           downloaded == pr.downloaded + Cardinality(got)
           total == Len(pr.fileList)
           more == pr.i + BATCH_SIZE < total
           progress ==
               IF more
               THEN <<LogMsg(r, "BOSL2: " \o NatToDigits(downloaded) \o "/"
                                    \o NatToDigits(total)
                                    \o " arquivos baixados", "info")>>
               ELSE <<>>
           pr1 == [pr EXCEPT !.files = files, !.downloaded = downloaded]
           pr2 == [pr1 EXCEPT !.assigns = @ + 1]
       IN  IF more
           THEN /\ procs' = [procs EXCEPT
                       ![r] = StartBatch(pr1, pr.i + BATCH_SIZE)]
                /\ outbox' = outbox \o progress
                /\ UNCHANGED bosl2Cache
           ELSE /\ procs' = [procs EXCEPT ![r] = LoadedBOSL2(pr2, files)]
                /\ outbox' = Append(outbox,
                       LogMsg(r, "BOSL2 carregada: "
                                     \o NatToDigits(Cardinality(DOMAIN files))
                                     \o " arquivos", "success"))
                /\ bosl2Cache' = FileSet(files)
    /\ UNCHANGED <<mainVars, inbox, createOpenSCAD, nextRid, cdn, engine,
                   textVars>>

\* compile from the log of the instantiation to the call of the factory
Instantiate(r) ==
    /\ procs[r].pc = "init"
    /\ procs' = [procs EXCEPT ![r].pc = "instantiating",
                              ![r].instances = @ + 1]
    /\ outbox' = Append(outbox,
           LogMsg(r, "Inicializando instancia OpenSCAD", "info"))
    /\ UNCHANGED <<mainVars, inbox, createOpenSCAD, bosl2Cache, nextRid,
                   cdn, engine, textVars>>

\* the try/catch around callMain: whether the error is thrown on
Rethrown(outcome) == outcome = "abort"

\* instance.FS.readFile('/output.stl'): the bytes, or ok = FALSE when the
\* read throws
ReadArtifact(fs) ==
    IF "/output.stl" \in DOMAIN fs.files
    THEN [ok |-> TRUE, data |-> fs.files["/output.stl"]]
    ELSE [ok |-> FALSE, data |-> ""]

\* the end of a request that takes a non-zero status for a failure (a mutant)
TerminalStatusFails(r, outcome, fs) ==
    IF outcome # "return0"
    THEN <<ErrorMsg(r, "callMain failed")>>
    ELSE IF ReadArtifact(fs).ok
    THEN <<LogMsg(r, "Compilacao concluida", "success"),
           ResultMsg(r, ReadArtifact(fs).data)>>
    ELSE <<ErrorMsg(r, StlMissing)>>

\* the end of a request that answers with what it has when the read of the
\* output fails (a mutant)
TerminalUnchecked(r, outcome, fs) ==
    IF Rethrown(outcome) THEN <<ErrorMsg(r, "callMain aborted")>>
    ELSE <<LogMsg(r, "Compilacao concluida", "success"),
           ResultMsg(r, ReadArtifact(fs).data)>>

\* the end of a request that logs its completion after the result (a mutant)
TerminalLogLast(r, outcome, fs) ==
    IF Rethrown(outcome) THEN <<ErrorMsg(r, "callMain aborted")>>
    ELSE IF ReadArtifact(fs).ok
    THEN <<ResultMsg(r, ReadArtifact(fs).data),
           LogMsg(r, "Compilacao concluida", "success")>>
    ELSE <<ErrorMsg(r, StlMissing)>>

\* what compile and the handler post once callMain has completed: the
\* error thrown on, or the read of the output and the result or the error
Terminal(r, outcome, fs) ==
    IF Rethrown(outcome) THEN <<ErrorMsg(r, "callMain aborted")>>
    ELSE IF ReadArtifact(fs).ok
    THEN <<LogMsg(r, "Compilacao concluida", "success"),
           ResultMsg(r, ReadArtifact(fs).data)>>
    ELSE <<ErrorMsg(r, StlMissing)>>

\* the staging on the file area of an instance that has run before (a
\* mutant)
StagedOnUsed(pr) ==
    WriteFile(IF pr.bosl2Files.isnull
              THEN WriteFile(EmptyFS, "/output.stl", "STL{}{}")
              ELSE WriteBOSL2ToFS(WriteFile(EmptyFS, "/output.stl", "STL{}{}"),
                                  pr.bosl2Files.files),
              "/input.scad", pr.scadSource)

\* the staging of a new instance's file area
Staged(pr) ==
    WriteFile(IF pr.bosl2Files.isnull THEN EmptyFS
              ELSE WriteBOSL2ToFS(EmptyFS, pr.bosl2Files.files),
              "/input.scad", pr.scadSource)

RECURSIVE OddItems(_)
\* dFlags.filter((_, i) => i % 2 === 1)
OddItems(xs) ==
    IF Len(xs) < 2 THEN <<>> ELSE <<xs[2]>> \o OddItems(SubSeq(xs, 3, Len(xs)))

\* the factory settles; on an instance compile stages the files, runs the
\* engine, reads the output and the handler posts the terminal message.
\* The engine may print (printed), may write the output (wrote), and
\* completes in one of the EngineOutcomes.
InstanceReady(r, ok, outcome, wrote, printed) ==
    /\ procs[r].pc = "instantiating"
    /\ outcome \in engine.outcomes
    /\ printed \in engine.prints
    /\ IF ~ok
       THEN /\ procs' = [procs EXCEPT ![r] = Finished(@)]
            /\ outbox' = Append(outbox, ErrorMsg(r, "instantiate failed"))
       ELSE LET pr == procs[r]
                fs2 == Staged(pr)
                args == MainArgs(pr.params)
                fs3 == IF wrote
                       THEN WriteFile(fs2, "/output.stl",
                                      ArtifactOf(fs2, args))
                       ELSE fs2
                before ==
                    (IF Len(pr.params) > 0
                     THEN <<LogMsg(r, "Overrides: " \o
                               JoinWith(OddItems(BuildDFlags(pr.params)),
                                        ", "), "info")>>
                     ELSE <<>>)
                    \o <<LogMsg(r, "Compilando", "info")>>
                    \o (IF printed
                        THEN <<LogMsg(r, "engine output", "error")>>
                        ELSE <<>>)
            IN  /\ procs' = [procs EXCEPT
                        ![r] = [Finished(pr) EXCEPT !.ran = TRUE,
                                                    !.exit = outcome,
                                                    !.fs = fs3,
                                                    !.args = args]]
                /\ outbox' = outbox \o before \o Terminal(r, outcome, fs3)
    /\ UNCHANGED <<mainVars, inbox, createOpenSCAD, bosl2Cache, nextRid,
                   cdn, engine, textVars>>

\* the steps of the worker
WorkerStep ==
    \/ OnMessage
    \/ \E r \in DOMAIN procs :
        \/ LoadFactory(r)
        \/ \E ok \in BOOLEAN : ImportDone(r, ok)
        \/ CheckBOSL2(r)
        \/ \E ok \in BOOLEAN : ListingDone(r, ok)
        \/ \E ok \in BOOLEAN : FetchDone(r, ok)
        \/ BatchDone(r)
        \/ Instantiate(r)
        \/ \E ok \in BOOLEAN, wrote \in BOOLEAN, printed \in BOOLEAN :
               \E outcome \in EngineOutcomes :
                   InstanceReady(r, ok, outcome, wrote, printed)

\* the state of the page and of the worker when the scripts have run
InitApp ==
    /\ currentScadSource = Null
    /\ currentParams = <<>>
    /\ currentStlBuffer = ""
    /\ isCompiling = FALSE
    /\ worker = FALSE
    /\ btnCompileDisabled = TRUE
    /\ btnDownloadDisabled = TRUE
    /\ inbox = <<>>
    /\ outbox = <<>>
    /\ createOpenSCAD = FALSE
    /\ bosl2Cache = NoFiles
    /\ procs = <<>>
    /\ nextRid = 1
    /\ synth = NoSynth

(***************************************************************************)
(* The worker specification: a client posts compile requests one at a      *)
(* time, each after it has received the terminal message of the one        *)
(* before (the guard of the click handler).                                *)
(***************************************************************************)
ClientPost(source, params) ==
    /\ nextRid <= MaxReq
    /\ inbox = <<>>
    /\ Live = {}
    /\ inbox' = <<[type |-> "compile", rid |-> nextRid,
                   scadSource |-> source, params |-> params]>>
    /\ outbox' = <<>>
    /\ nextRid' = nextRid + 1
    /\ UNCHANGED <<mainVars, createOpenSCAD, bosl2Cache, procs, cdn, engine,
                   textVars>>

InitWorker ==
    /\ InitApp
    /\ cdn \in {SmallCDN, BigCDN, EmptyCDN}
    /\ engine = AnyEngine
    /\ textIn = ""

NextWorker ==
    \/ \E source \in WorkerSources, params \in WorkerParams :
           ClientPost(source, params)
    \/ WorkerStep

SpecWorker == InitWorker /\ [][NextWorker]_vars

(***************************************************************************)
(* The application: the main thread and the worker.                        *)
(***************************************************************************)
Init ==
    /\ InitApp
    /\ cdn \in {TinyCDN, NoScript}
    /\ engine = QuietEngine
    /\ textIn = ""

\* the descriptors of the files of the application specification
AppParsed == [src \in AppSources |-> ParseParameters(src)]

FileLoad ==
    \E src \in AppSources :
        ReaderOnload(src, AppParsed[src]) /\ UNCHANGED textIn

Next ==
    \/ FileLoad
    \/ \E i \in 1..Len(currentParams) :
           \E v \in WidgetValues(currentParams[i]) : EditParam(i, v)
    \/ BtnCompileClick
    \/ OnWorkerMessage
    \/ OnWorkerError
    \/ WorkerStep

Spec == Init /\ [][Next]_vars

(***************************************************************************)
(* The text specification: a file is read, its descriptors are edited and  *)
(* the synthesizer is applied.                                             *)
(***************************************************************************)
\* the text is read once
TextLoad ==
    /\ currentScadSource = Null
    /\ ReaderOnload(textIn, ParseParameters(textIn))
    /\ UNCHANGED textIn

TextEdit == \E i \in 1..Len(currentParams) :
                \E v \in WidgetValues(currentParams[i]) : EditParam(i, v)

Synthesize ==
    /\ currentScadSource.k = "str"
    /\ synth' = [done |-> TRUE, source |-> currentScadSource.s,
                 params |-> currentParams,
                 out |-> BuildModifiedSource(currentScadSource.s,
                                             currentParams)]
    /\ UNCHANGED <<mainVars, chanVars, workerVars, textIn>>

InitText ==
    /\ InitApp
    /\ cdn = TinyCDN
    /\ engine = QuietEngine
    /\ textIn \in TextSources

NextText == TextLoad \/ TextEdit \/ Synthesize

SpecText == InitText /\ [][NextText]_vars


(***************************************************************************)
(* Properties of the extractor and the synthesizer (SpecText).             *)
(***************************************************************************)
SrcLines(t) == SplitOn(t, "\n")

\* the line indices (zero-based) recorded by the descriptors
RecordedLines(params) == {params[k].line : k \in 1..Len(params)}

\* the serialization the specification gives a value of a type
Serialize(type, value) ==
    IF type = "bool" THEN (IF value.b THEN "true" ELSE "false")
    ELSE IF type = "string" THEN "\"" \o value.s \o "\""
    ELSE IF value.k = "num" THEN NumToStr(value.n)
    ELSE JsString(value)

\* the line with only the literal the extractor recognized, between the
\* assignment operator and the terminating delimiter, replaced by the
\* serialization of the descriptor's value
ExpectedLine(orig, p) ==
    LET lead == SkipWhile(orig, 1, SpaceClass) - 1
        m == VarMatchWith(Trim(orig), WordClass)
    IN  SubSeq(orig, 1, lead + m.from - 1)
            \o Serialize(p.type, p.value)
            \o SubSeq(orig, lead + m.to + 1, Len(orig))

\* a decimal literal [+-]digits[.digits] and nothing else
IsNumericLiteral(s) ==
    LET signed == Len(s) >= 1 /\ Ch(s, 1) \in {"-", "+"}
        i == IF signed THEN 2 ELSE 1
        j == SkipWhile(s, i, DigitClass)
        dot == j <= Len(s) /\ Ch(s, j) = "."
        q == IF dot THEN SkipWhile(s, j + 1, DigitClass) ELSE j
    IN  /\ q = Len(s) + 1
        /\ (j > i \/ (dot /\ q > j + 1))

\* exactly a bool literal, a fully double-quoted token or a numeric literal
IsLiteral(s) ==
    \/ s \in {"true", "false"}
    \/ QuotedMatch(s)
    \/ IsNumericLiteral(s)

\* C1: extracting the descriptors of a text and synthesizing with no value
\* changed gives back, on every line a descriptor records, the line of the
\* text character for character.
C1_RoundTrip ==
    (synth.done /\ synth.params = ParseParameters(synth.source)) =>
        /\ Len(SrcLines(synth.out)) = Len(SrcLines(synth.source))
        /\ \A k \in 1..Len(synth.params) :
               SrcLines(synth.out)[synth.params[k].line + 1]
                   = SrcLines(synth.source)[synth.params[k].line + 1]

\* C6: after synthesis the line of every descriptor is the original line
\* with only its literal replaced by the serialization of the descriptor's
\* value, whatever the value and the original literal.
C6_EditedLine ==
    synth.done =>
        /\ Len(SrcLines(synth.out)) = Len(SrcLines(synth.source))
        /\ \A k \in 1..Len(synth.params) :
               SrcLines(synth.out)[synth.params[k].line + 1]
                   = ExpectedLine(
                         SrcLines(synth.source)[synth.params[k].line + 1],
                         synth.params[k])

\* C7: synthesis keeps the number and order of the lines and leaves every
\* line that no descriptor records identical to the original.
C7_Frame ==
    synth.done =>
        /\ Len(SrcLines(synth.out)) = Len(SrcLines(synth.source))
        /\ \A i \in 1..Len(SrcLines(synth.source)) :
               (i - 1) \notin RecordedLines(synth.params) =>
                   SrcLines(synth.out)[i] = SrcLines(synth.source)[i]

\* C7 witness: a synthesis with an edited value that changed a recorded
\* line of a text holding a line that no descriptor records.
C7_FrameWitness ==
    /\ synth.done
    /\ synth.params # ParseParameters(synth.source)
    /\ synth.out # synth.source
    /\ \E i \in 1..Len(SrcLines(synth.source)) :
           /\ (i - 1) \notin RecordedLines(synth.params)
           /\ SrcLines(synth.source)[i] # Trim(SrcLines(synth.source)[i])

\* C8: a candidate assignment whose right-hand side is not exactly a
\* literal gives no descriptor, and synthesis leaves its line unchanged.
C8_ExpressionsExcluded ==
    currentScadSource.k = "str" =>
        \A i \in 1..Len(SrcLines(currentScadSource.s)) :
            LET m == VarMatchWith(Trim(SrcLines(currentScadSource.s)[i]),
                                  WordClass)
            IN  (m.ok /\ ~IsLiteral(Trim(m.b))) =>
                    /\ (i - 1) \notin RecordedLines(currentParams)
                    /\ (synth.done /\ Len(SrcLines(synth.out)) >= i) =>
                           SrcLines(synth.out)[i]
                               = SrcLines(currentScadSource.s)[i]

\* C10: no descriptor has a name that begins with $.
C10_NoSigilNames ==
    \A k \in 1..Len(currentParams) : ~StartsWith(currentParams[k].name, 1, "$")

\* C10 witness: the loaded text holds an assignment of a literal to a name
\* that begins with $, next to an assignment that gave a descriptor.
C10_SigilWitness ==
    /\ currentScadSource.k = "str"
    /\ Len(currentParams) >= 1
    /\ \E i \in 1..Len(SrcLines(currentScadSource.s)) :
           LET c == CandidateOfSigil(Trim(SrcLines(currentScadSource.s)[i]))
           IN  c.ok /\ StartsWith(c.name, 1, "$") /\ ParseValue(c.rawValue).ok

(***************************************************************************)
(* Properties of the worker (SpecWorker).  While no message waits in the   *)
(* inbox, the invocations recorded in procs are those of the last request  *)
(* posted and outbox holds every message posted for it.                    *)
(***************************************************************************)
\* the messages posted for request r, in order
MsgsOf(r) ==
    LET OfRequest(m) == m.rid = r
    IN  SelectSeq(outbox, OfRequest)

\* the positions of the terminal messages among the messages of request r
TerminalsOf(r) ==
    {k \in 1..Len(MsgsOf(r)) : MsgsOf(r)[k].type \in {"result", "error"}}

\* the last message posted for request r
LastOf(r) == MsgsOf(r)[Len(MsgsOf(r))]

\* the requests whose engine run has completed
Ran == {r \in DOMAIN procs : inbox = <<>> /\ procs[r].pc = "done"
                                 /\ procs[r].ran}

HasOutput(r) == "/output.stl" \in DOMAIN procs[r].fs.files

\* C2 (as stated): whenever the engine has run and /output.stl exists, the
\* request ends with a result carrying the artifact, however the run
\* completed.
C2_PresenceIsSuccess ==
    \A r \in Ran :
        HasOutput(r) =>
            /\ MsgsOf(r) # <<>>
            /\ LastOf(r) = ResultMsg(r, procs[r].fs.files["/output.stl"])

\* C2 (amended): whenever callMain returned, with a zero or a non-zero
\* status, or threw an error that carries a status, and /output.stl exists,
\* the request ends with a result carrying the artifact; when callMain
\* threw an error that carries no status the request ends with an error,
\* even if /output.stl exists.
C2_PresenceIsSuccessUnlessRethrown ==
    \A r \in Ran :
        /\ MsgsOf(r) # <<>>
        /\ (HasOutput(r) /\ procs[r].exit # "abort") =>
               LastOf(r) = ResultMsg(r, procs[r].fs.files["/output.stl"])
        /\ procs[r].exit = "abort" => LastOf(r).type = "error"

\* C2 witness: callMain threw an exit status, the output exists and the
\* request ended with the result.
C2_StatusWitness ==
    \E r \in Ran :
        /\ procs[r].exit = "exit"
        /\ HasOutput(r)
        /\ LastOf(r).type = "result"

\* C3 (as stated): whenever the engine run leaves no /output.stl, the
\* request ends with the error of the generic diagnostic and with no
\* result; a result carries the bytes read from the output file.
C3_AbsenceIsGenericError ==
    \A r \in Ran :
        /\ ~HasOutput(r) =>
               /\ MsgsOf(r) # <<>>
               /\ LastOf(r) = ErrorMsg(r, StlMissing)
               /\ \A k \in 1..Len(MsgsOf(r)) : MsgsOf(r)[k].type # "result"
        /\ \A k \in 1..Len(MsgsOf(r)) :
               MsgsOf(r)[k].type = "result" =>
                   /\ HasOutput(r)
                   /\ MsgsOf(r)[k].stl = procs[r].fs.files["/output.stl"]

\* C3 (amended): whenever the engine run leaves no /output.stl, the request
\* ends with an error and with no result; the error is the generic
\* diagnostic when callMain returned or threw an error that carries a
\* status, and the error callMain threw otherwise; a result carries the
\* bytes read from the output file.
C3_AbsenceIsError ==
    \A r \in Ran :
        /\ ~HasOutput(r) =>
               /\ MsgsOf(r) # <<>>
               /\ LastOf(r).type = "error"
               /\ procs[r].exit # "abort" =>
                      LastOf(r) = ErrorMsg(r, StlMissing)
               /\ \A k \in 1..Len(MsgsOf(r)) : MsgsOf(r)[k].type # "result"
        /\ \A k \in 1..Len(MsgsOf(r)) :
               MsgsOf(r)[k].type = "result" =>
                   /\ HasOutput(r)
                   /\ MsgsOf(r)[k].stl = procs[r].fs.files["/output.stl"]

\* C3 witness: callMain returned zero, no output exists and the request
\* ended with the generic diagnostic.
C3_ZeroStatusWitness ==
    \E r \in Ran :
        /\ procs[r].exit = "return0"
        /\ ~HasOutput(r)
        /\ LastOf(r) = ErrorMsg(r, StlMissing)

\* C4: a request that has ended has exactly one terminal message, a result
\* or an error, which is the last of its messages; a request that has not
\* ended has none.
C4_OneTerminal ==
    inbox = <<>> =>
        \A r \in DOMAIN procs :
            IF procs[r].pc = "done"
            THEN /\ MsgsOf(r) # <<>>
                 /\ TerminalsOf(r) = {Len(MsgsOf(r))}
            ELSE TerminalsOf(r) = {}

\* C4 witness: a request whose engine ran ended with a result that follows
\* logs, after a request before it had ended.
C4_TerminalWitness ==
    \E r \in Ran :
        /\ r > 1
        /\ LastOf(r).type = "result"
        /\ Len(MsgsOf(r)) >= 3

\* C5: a request that references the library and is handled when
\* bosl2Cache holds a file set performs no fetch, neither of the listing
\* nor of a file, and the library files its instance is staged with are
\* exactly those of the cached file set.
C5_CacheReuse ==
    inbox = <<>> =>
        \A r \in DOMAIN procs :
            (procs[r].cachedAtStart /\ NeedsBOSL2(procs[r].scadSource)) =>
                /\ procs[r].fetches = 0
                /\ procs[r].pc \notin {"listing", "batch"}
                /\ procs[r].ran =>
                       /\ ~bosl2Cache.isnull
                       /\ \A q \in DOMAIN procs[r].fs.files :
                              StartsWith(q, 1, "/BOSL2/") =>
                                  SubSeq(q, 8, Len(q))
                                      \in DOMAIN bosl2Cache.files
                       /\ \A n \in DOMAIN bosl2Cache.files :
                              /\ ("/BOSL2/" \o n) \in DOMAIN procs[r].fs.files
                              /\ procs[r].fs.files["/BOSL2/" \o n]
                                     = bosl2Cache.files[n]

\* C5 witness: a request that references the library ran its engine with
\* the file set cached by a request before it, a set in which a file of
\* the listing is missing.
C5_IncompleteCacheWitness ==
    \E r \in Ran :
        /\ procs[r].cachedAtStart
        /\ NeedsBOSL2(procs[r].scadSource)
        /\ Cardinality(DOMAIN bosl2Cache.files)
               < Len(FileListOf(cdn.listing))

(***************************************************************************)
(* Properties of the application (Spec).                                   *)
(***************************************************************************)
\* the compile message a step posts, when it posts one
Posted(box) == box[Len(box)]

\* C9 (as stated): the text of every compile message posted is
\* buildModifiedSource(currentScadSource, currentParams) at the click.
C9_PostsSynthesized ==
    [][Len(inbox') > Len(inbox) =>
           Posted(inbox').scadSource
               = BuildModifiedSource(currentScadSource.s, currentParams)]_vars

\* C9 (amended): the text of every compile message posted is
\* currentScadSource at the click, not edited, and its overrides are one
\* {name, value, type} for every descriptor, in order, with the values of
\* currentParams at the click.
C9_PostsOriginal ==
    [][Len(inbox') > Len(inbox) =>
           /\ Posted(inbox').type = "compile"
           /\ Posted(inbox').scadSource = currentScadSource.s
           /\ Posted(inbox').params = Overrides(currentParams)]_vars

\* C9 witness: a compile message waits in the inbox whose overrides hold
\* an edited value and whose text differs from the synthesized text.
C9_EditedPostWitness ==
    /\ inbox # <<>>
    /\ currentScadSource.k = "str"
    /\ Posted(inbox).params = Overrides(currentParams)
    /\ Posted(inbox).scadSource = currentScadSource.s
    /\ Posted(inbox).scadSource
           # BuildModifiedSource(currentScadSource.s, currentParams)

(***************************************************************************)
(* The annotation specification: a one-line text with a trailing comment   *)
(* is read, its descriptor is edited and the synthesizer is applied.       *)
(***************************************************************************)
InitAnnot ==
    /\ InitApp
    /\ cdn = TinyCDN
    /\ engine = QuietEngine
    /\ textIn \in AnnotSources

SpecAnnot == InitAnnot /\ [][NextText]_vars

(***************************************************************************)
(* Properties of the annotations (SpecAnnot).                              *)
(***************************************************************************)
\* a decimal operand -?digits[.digits]
IsOperand(s) ==
    /\ IsNumericLiteral(s)
    /\ Ch(s, 1) # "+"
    /\ Ch(s, Len(s)) # "."
    /\ Matches(DigitClass, Ch(s, IF Ch(s, 1) = "-" THEN 2 ELSE 1))

\* the text between the brackets of a comment that is exactly a bracket,
\* or "" when the comment is not one
BracketInner(comment) ==
    IF /\ Len(comment) >= 3
       /\ Ch(comment, 1) = "[" /\ Ch(comment, Len(comment)) = "]"
       /\ IndexOfChar(comment, 1, "]") = Len(comment)
    THEN SubSeq(comment, 2, Len(comment) - 1)
    ELSE ""

\* the operands of a bracket min:max or min:step:max, white space allowed
\* around the colons only; <<>> when the bracket is not of that form
RangeOperands(comment) ==
    LET Operands(parts) ==
            IF /\ Len(parts) \in {2, 3}
               /\ \A k \in 1..Len(parts) : IsOperand(Trim(parts[k]))
               /\ BracketInner(comment) = Trim(BracketInner(comment))
            THEN [k \in 1..Len(parts) |-> Trim(parts[k])]
            ELSE <<>>
    IN  Operands(SplitOn(BracketInner(comment), ":"))

\* C11: a descriptor whose comment is exactly a bracket min:max has that
\* min and max and step null; one whose comment is a bracket min:step:max
\* has min, the middle operand as step, and max; in both cases its type is
\* number and its options are null.
C11_RangeAnnotation ==
    \A k \in 1..Len(currentParams) :
        LET p == currentParams[k]
            ops == RangeOperands(p.comment)
        IN  /\ Len(ops) = 2 =>
                   /\ p.min = ParseFloat(ops[1])
                   /\ p.max = ParseFloat(ops[2])
                   /\ p.step = Null
                   /\ p.type = "number" /\ p.options.isnull
            /\ Len(ops) = 3 =>
                   /\ p.min = ParseFloat(ops[1])
                   /\ p.step = ParseFloat(ops[2])
                   /\ p.max = ParseFloat(ops[3])
                   /\ p.type = "number" /\ p.options.isnull

\* C11 witness: a string assignment annotated with min:step:max gave a
\* descriptor of type number with a fractional step.
C11_StepWitness ==
    \E k \in 1..Len(currentParams) :
        /\ Len(RangeOperands(currentParams[k].comment)) = 3
        /\ currentParams[k].value.k = "str"
        /\ currentParams[k].step.k = "num"
        /\ currentParams[k].step.n % Scale # 0

\* a token without the pair of double quotes that surrounds it
StripPair(t) ==
    IF Len(t) >= 2 /\ Ch(t, 1) = "\"" /\ Ch(t, Len(t)) = "\""
    THEN SubSeq(t, 2, Len(t) - 1) ELSE t

\* a token without its leading double quote and without its trailing one,
\* whether or not the other is there
StripEach(t) ==
    LET NoLast(u) ==
            IF u # "" /\ Ch(u, Len(u)) = "\"" THEN SubSeq(u, 1, Len(u) - 1)
            ELSE u
    IN  NoLast(IF t # "" /\ Ch(t, 1) = "\"" THEN SubSeq(t, 2, Len(t)) ELSE t)

\* the option a token stands for in a descriptor of the given type; parsing
\* as a number is parseFloat reading one
ExpectedOption(tok, type, paired) ==
    LET Item(o) ==
            IF type = "number" /\ ParseFloat(o).k = "num" THEN ParseFloat(o)
            ELSE Str(o)
    IN  Item(IF paired THEN StripPair(Trim(tok)) ELSE StripEach(Trim(tok)))

\* a descriptor whose comment is exactly a bracket that is not a range
IsEnumerated(p) ==
    /\ BracketInner(p.comment) # ""
    /\ ~RangeMatch(BracketInner(p.comment)).ok

\* the enumeration property, for either way of stripping the quotes
EnumerationHolds(paired) ==
    \A k \in 1..Len(currentParams) :
        LET p == currentParams[k]
            toks == SplitOn(BracketInner(p.comment), ",")
        IN  IsEnumerated(p) =>
                /\ ~p.options.isnull
                /\ p.options.items =
                       [i \in 1..Len(toks) |->
                           ExpectedOption(toks[i], p.type, paired)]
                /\ p.min = Null /\ p.max = Null /\ p.step = Null

\* C12 as stated: a descriptor whose comment is exactly a bracket holding a
\* comma-separated list that is not a range has as options the tokens in
\* source order, each trimmed and stripped of the double quotes surrounding
\* it, a token that parses as a number replaced by the number when the type
\* is number; min, max and step are null.
C12_EnumerationPaired == EnumerationHolds(TRUE)

\* C12 amended: as above, with each trimmed token stripped of a leading
\* double quote and of a trailing double quote independently of each other.
C12_Enumeration == EnumerationHolds(FALSE)

\* C12 witness: a number descriptor whose list has a token with a lone
\* quote, and whose options hold a number and a string.
C12_LoneQuoteWitness ==
    \E k \in 1..Len(currentParams) :
        LET p == currentParams[k]
            toks == SplitOn(BracketInner(p.comment), ",")
        IN  /\ IsEnumerated(p) /\ p.type = "number"
            /\ \E i \in 1..Len(toks) :
                   StripPair(Trim(toks[i])) # StripEach(Trim(toks[i]))
            /\ \E i, j \in 1..Len(p.options.items) :
                   /\ p.options.items[i].k = "num"
                   /\ p.options.items[j].k = "str"

(***************************************************************************)
(* Properties of the factory cache (SpecWorker).                           *)
(***************************************************************************)
\* the invocations that take a step from one position to another
Moved(from, to) ==
    {r \in DOMAIN procs \cap DOMAIN procs' :
        procs[r].pc = from /\ procs'[r].pc = to}

\* the invocations that leave loadFactory's test of the cache
Tested == {r \in DOMAIN procs \cap DOMAIN procs' :
              procs[r].pc = "loadFactory" /\ procs'[r].pc # "loadFactory"}

\* a step of the factory cache: a failed import ends the request with
\* 'error' and leaves the cache empty, a request imports exactly when it
\* finds the cache empty, and a filled cache stays filled
FactoryStep ==
    /\ \A r \in Moved("import", "done") :
           /\ ~createOpenSCAD'
           /\ outbox' # <<>>
           /\ outbox'[Len(outbox')].rid = r
           /\ outbox'[Len(outbox')].type = "error"
    /\ \A r \in Tested : (procs'[r].pc = "import") <=> ~createOpenSCAD
    /\ createOpenSCAD => createOpenSCAD'

\* C13: a request whose factory load fails ends with 'error' and leaves
\* createOpenSCAD empty, so that the next request loads again; once a load
\* has succeeded createOpenSCAD stays set and no request loads again.
C13_FactoryCache == [][FactoryStep]_vars

\* C13 witness: the second request is past loadFactory without having
\* logged a load, the factory being the one an earlier request loaded.
C13_ReusedFactoryWitness ==
    \E r \in DOMAIN procs :
        /\ r >= 2 /\ createOpenSCAD
        /\ procs[r].pc = "needsBOSL2"
        /\ outbox = <<>>

\* C13 second witness: the second request is importing, the first one's
\* import having failed.
C13_RetryWitness ==
    \E r \in DOMAIN procs : r >= 2 /\ procs[r].pc = "import"

(***************************************************************************)
(* Properties of the run of the engine (SpecWorker).                       *)
(***************************************************************************)
\* C14: the arguments of a run are the input path, the output flag and the
\* output path, then one pair '-D', name=value per override in the order of
\* the overrides (3 + 2n arguments for n overrides), the value written as
\* the synthesizer writes a value of the same type.
C14_Arguments ==
    \A r \in DOMAIN procs :
        procs[r].ran =>
            LET a == procs[r].args
                ps == procs[r].params
            IN  /\ Len(a) = 3 + 2 * Len(ps)
                /\ SubSeq(a, 1, 3) = <<"/input.scad", "-o", "/output.stl">>
                /\ \A i \in 1..Len(ps) :
                       /\ a[2 + 2 * i] = "-D"
                       /\ a[3 + 2 * i] = ps[i].name \o "=" \o NewValue(ps[i])

\* C14 witness: a run with overrides of type string, bool and number.
C14_TypedOverridesWitness ==
    \E r \in DOMAIN procs :
        /\ procs[r].ran
        /\ {"string", "bool", "number"} \subseteq
               {procs[r].params[i].type : i \in 1..Len(procs[r].params)}
        /\ Len(procs[r].args) = 3 + 2 * Len(procs[r].params)

(***************************************************************************)
(* Properties of the compile control (Spec).                               *)
(***************************************************************************)
\* the requests posted that have not produced their terminal message: the
\* ones the worker has not taken yet and the ones it is working on
InFlight == {inbox[i].rid : i \in 1..Len(inbox)} \cup Live

\* C15: the main thread posts a 'compile' message only when no earlier
\* request is in flight, i.e. every request posted before has produced its
\* 'result' or 'error'.
C15_OneInFlight == [][Len(inbox') > Len(inbox) => InFlight = {}]_vars

(***************************************************************************)
(* Properties of the descriptors (SpecAnnot).                              *)
(***************************************************************************)
\* the three shapes of a descriptor's constraints
IsEnumeration(p) ==
    ~p.options.isnull /\ p.min = Null /\ p.max = Null /\ p.step = Null
IsRange(p) == p.min # Null /\ p.max # Null /\ p.options.isnull
IsFree(p) ==
    p.options.isnull /\ p.min = Null /\ p.max = Null /\ p.step = Null

\* C16: every descriptor has exactly one of the three shapes: options
\* without min, max and step; min and max without options; none of the
\* four.  So min is non-null iff max is, and step is non-null only when
\* min and max are.
C16_ConstraintShapes ==
    \A k \in 1..Len(currentParams) :
        LET p == currentParams[k]
        IN  /\ Cardinality({sh \in {"enumeration", "range", "free"} :
                   \/ sh = "enumeration" /\ IsEnumeration(p)
                   \/ sh = "range" /\ IsRange(p)
                   \/ sh = "free" /\ IsFree(p)}) = 1
            /\ (p.min # Null) <=> (p.max # Null)
            /\ p.step # Null => p.min # Null /\ p.max # Null

\* C16 witness: a range whose min is not a number, and is not null either.
C16_NaNMinWitness ==
    \E k \in 1..Len(currentParams) :
        /\ IsRange(currentParams[k])
        /\ currentParams[k].min.k = "nan"
        /\ currentParams[k].step = Null

(***************************************************************************)
(* Properties of the engine instances (SpecWorker).                        *)
(***************************************************************************)
\* the paths a request stages on its instance
StagedPaths(pr) ==
    {"/input.scad"} \cup
        (IF pr.bosl2Files.isnull THEN {}
         ELSE {"/BOSL2/" \o n : n \in DOMAIN pr.bosl2Files.files})

\* what the engine writes for the request's own text and arguments
OwnArtifact(pr) ==
    "STL{" \o pr.scadSource \o "}{" \o JoinWith(pr.args, " ") \o "}"

\* C17: a request calls the factory at most once, and once when it has run
\* the engine; the file area of the instance it ran on holds the files the
\* request staged, its own text as /input.scad, and no /output.stl but the
\* one its own run wrote; a result it posts carries that output.
C17_FreshInstance ==
    \A r \in DOMAIN procs :
        LET pr == procs[r]
        IN  /\ pr.instances <= 1
            /\ pr.pc = "instantiating" => pr.instances = 1
            /\ pr.ran =>
                   /\ pr.instances = 1
                   /\ DOMAIN pr.fs.files \ {"/output.stl"} = StagedPaths(pr)
                   /\ pr.fs.files["/input.scad"] = pr.scadSource
                   /\ "/output.stl" \in DOMAIN pr.fs.files =>
                          pr.fs.files["/output.stl"] = OwnArtifact(pr)
                   /\ \A i \in 1..Len(outbox) :
                          outbox[i].rid = r /\ outbox[i].type = "result" =>
                              outbox[i].stl = OwnArtifact(pr)

\* C17 witness: the engine run of a second request wrote no output; the
\* instance holds none and the request has ended with 'error'.
C17_NoStaleOutputWitness ==
    \E r \in DOMAIN procs :
        /\ r >= 2 /\ procs[r].ran
        /\ "/output.stl" \notin DOMAIN procs[r].fs.files
        /\ outbox # <<>>
        /\ outbox[Len(outbox)].rid = r
        /\ outbox[Len(outbox)].type = "error"

(***************************************************************************)
(* Properties of the dependency resolution (SpecWorker).                   *)
(***************************************************************************)
\* the 'error' messages of a request in a channel
ErrorsOf(box, r) ==
    {i \in 1..Len(box) : box[i].rid = r /\ box[i].type = "error"}

\* a step of the listing: a request whose listing fails ends with one
\* 'error', having fetched the listing only and made no instance, and the
\* cache stays empty; a request that refers to the library fetches the
\* listing whenever it finds the cache empty
ListingStep ==
    /\ \A r \in Moved("listing", "done") :
           /\ Cardinality(ErrorsOf(outbox', r)) = 1
           /\ outbox'[Len(outbox')].type = "error"
           /\ procs'[r].fetches = 1
           /\ procs'[r].instances = 0 /\ ~procs'[r].ran
           /\ bosl2Cache.isnull /\ bosl2Cache'.isnull
    /\ \A r \in DOMAIN procs \cap DOMAIN procs' :
           procs[r].pc = "needsBOSL2" /\ procs'[r].pc # "needsBOSL2" =>
               ((procs'[r].pc = "listing") <=>
                    (NeedsBOSL2(procs[r].scadSource) /\ bosl2Cache.isnull))

\* C18: a request whose listing fetch fails ends with exactly one 'error'
\* message, fetches no file body, creates no instance and leaves bosl2Cache
\* empty; a later request that refers to the library fetches the listing
\* again.
C18_ListingFailure == [][ListingStep]_vars

\* C18 witness: a request that refers to the library has ended having
\* fetched the listing only, the cache is empty and its last message is
\* its 'error'.
C18_ListingFailedWitness ==
    \E r \in DOMAIN procs :
        /\ procs[r].pc = "done" /\ NeedsBOSL2(procs[r].scadSource)
        /\ procs[r].fetches = 1 /\ procs[r].instances = 0
        /\ bosl2Cache.isnull
        /\ Cardinality(ErrorsOf(outbox, r)) = 1

\* the library files of the listing
Listed == {FileListOf(cdn.listing)[k] : k \in 1..Len(FileListOf(cdn.listing))}

\* C19: whichever file fetches fail, a request that has fetched file bodies
\* completes the resolution with the file set of exactly the listed library
\* files whose fetch succeeded, under their relative paths, that set is the
\* cache, and the request goes on to the instantiation: when it has ended
\* it has called the factory.
C19_FileFailureTolerated ==
    \A r \in DOMAIN procs :
        LET pr == procs[r]
        IN  /\ pr.succeeded \subseteq Listed
            /\ pr.fetches > 1 /\ pr.pc # "batch" =>
                   /\ ~pr.bosl2Files.isnull
                   /\ DOMAIN pr.bosl2Files.files = pr.succeeded
                   /\ \A n \in pr.succeeded :
                          pr.bosl2Files.files[n] = BodyOf(n)
                   /\ bosl2Cache = pr.bosl2Files
            /\ pr.fetches > 1 /\ pr.pc = "done" => pr.instances = 1

\* C19 witness: a request has run the engine with some of the listed files
\* fetched and some not.
C19_PartialSetWitness ==
    \E r \in DOMAIN procs :
        /\ procs[r].ran /\ procs[r].fetches > 1
        /\ procs[r].succeeded # {}
        /\ procs[r].succeeded # Listed
        /\ DOMAIN procs[r].bosl2Files.files = procs[r].succeeded

\* a step of the file fetches: those in flight after it are at most a
\* batch, and fetches are issued during the resolution only when none is
\* in flight
FetchStep ==
    \A r \in DOMAIN procs \cap DOMAIN procs' :
        /\ Len(procs'[r].pending) <= BATCH_SIZE
        /\ procs'[r].fetches > procs[r].fetches /\ procs[r].pc = "batch" =>
               /\ procs[r].pending = <<>>
               /\ Len(procs[r].results) = Len(BatchOf(procs[r].fileList,
                                                      procs[r].i))

\* C20: the file fetches of a request that are in flight are never more
\* than BATCH_SIZE (15), and the fetches of a batch are issued only when
\* every fetch of the batch before has settled, with or without a body.
C20_BoundedFetches == [][FetchStep]_vars

\* C20 witness: the fetches of a second batch are in flight, every listed
\* file having been requested, and a fetch of the first batch had failed.
C20_SecondBatchWitness ==
    \E r \in DOMAIN procs :
        /\ procs[r].pc = "batch" /\ procs[r].i = BATCH_SIZE
        /\ procs[r].pending # <<>>
        /\ procs[r].fetches = 1 + Len(procs[r].fileList)
        /\ Cardinality(procs[r].succeeded) < BATCH_SIZE

\* a progress notification: a 'log' message with the downloaded/total count
IsProgress(msg, downloaded, total) ==
    /\ msg.type = "log"
    /\ msg.text = "BOSL2: " \o NatToDigits(downloaded) \o "/"
                      \o NatToDigits(total) \o " arquivos baixados"

\* the invocations whose batch completes in the step: every fetch has
\* settled and Promise.all resolves
BatchCompleted ==
    {r \in DOMAIN procs \cap DOMAIN procs' :
        /\ procs[r].pc = "batch" /\ procs[r].pending = <<>>
        /\ procs'[r] # procs[r]}

\* C21: when a batch of file fetches completes, the last batch included, a
\* progress notification with the downloaded/total count is posted, before
\* any fetch of the next batch is issued (the notification is posted in the
\* step that completes the batch).
C21_ProgressEveryBatch ==
    [][\A r \in BatchCompleted :
           /\ Len(outbox') > Len(outbox)
           /\ IsProgress(outbox'[Len(outbox) + 1],
                         Cardinality(procs'[r].succeeded),
                         Len(procs[r].fileList))]_vars

(***************************************************************************)
(* Properties of the library cache over the requests (SpecWorker).         *)
(***************************************************************************)
\* bosl2Cache is assigned at most once
AssignedOnce == \A r \in DOMAIN procs : procs[r].assigns <= 1

\* no request fetches for the library after another has
FetchedByFirst ==
    \A r \in DOMAIN procs :
        procs[r].fetches > 0 => procs[r].fetchedBefore = 0

\* a request that fetches for the library found the cache empty, and the
\* cache has been assigned only if the request has its file set
FetchedWhileEmpty ==
    \A r \in DOMAIN procs :
        procs[r].fetches > 0 =>
            /\ ~procs[r].cachedAtStart
            /\ procs[r].assigns = (IF procs[r].bosl2Files.isnull THEN 0 ELSE 1)

\* once assigned, bosl2Cache does not change
CacheFrozen == ~bosl2Cache.isnull => bosl2Cache' = bosl2Cache

\* C22 as stated: the network fetches for the library are all issued by
\* one request, the first that needs the library, also when the listing
\* fetch of an earlier request failed; bosl2Cache is assigned at most once
\* and does not change once assigned.
C22_FetchesInFirstRequest ==
    [][FetchedByFirst' /\ AssignedOnce' /\ CacheFrozen]_vars

\* C22 amended: the network fetches for the library are issued only by
\* requests that find bosl2Cache empty, that is by the requests up to the
\* first one whose resolution completes (a request after a failed listing
\* fetches again); bosl2Cache is assigned at most once and does not change
\* once assigned.
C22_FetchesWhileEmpty ==
    [][FetchedWhileEmpty' /\ AssignedOnce' /\ CacheFrozen]_vars

\* C22 witness: a request has fetched the library and filled the cache
\* after an earlier request had fetched for it without filling it.
C22_RefetchWitness ==
    \E r \in DOMAIN procs :
        /\ procs[r].fetchedBefore > 0 /\ procs[r].fetches > 1
        /\ procs[r].assigns = 1
        /\ bosl2Cache = procs[r].bosl2Files
        /\ ~bosl2Cache.isnull

(***************************************************************************)
(* The scan specification: a text of section headers, assignments and      *)
(* definitions is read, its descriptors are edited and the synthesizer is  *)
(* applied.                                                                *)
(***************************************************************************)
InitScan ==
    /\ InitApp
    /\ cdn = TinyCDN
    /\ engine = QuietEngine
    /\ textIn \in ScanSources

SpecScan == InitScan /\ [][NextText]_vars

(***************************************************************************)
(* Properties of the scan (SpecScan).                                      *)
(***************************************************************************)
\* a line that begins a module or function definition
IsDefinitionLine(l) ==
    \E kw \in {"module", "function"} :
        /\ StartsWith(Trim(l), 1, kw)
        /\ Len(Trim(l)) > Len(kw)
        /\ IsSpace(Ch(Trim(l), Len(kw) + 1))

\* the title of a section header line // [Title], or "" when the line is
\* not one
HeaderTitle(l) ==
    IF StartsWith(Trim(l), 1, "//")
    THEN Trim(BracketInner(Trim(SubSeq(Trim(l), 3, Len(Trim(l))))))
    ELSE ""

\* the index (one-based) of the first definition line, or one past the end
FirstDefinition(lines) ==
    SetMin({i \in 1..Len(lines) : IsDefinitionLine(lines[i])}
               \cup {Len(lines) + 1})

\* the section in force at line i: the title of the nearest header before
\* it, or null
SectionAt(lines, i) ==
    LET hs == {j \in 1..(i - 1) : HeaderTitle(lines[j]) # ""}
    IN  IF hs = {} THEN Null ELSE Str(HeaderTitle(lines[SetMax(hs)]))

\* C23: no descriptor has a line at or after the first line that begins a
\* module or function definition; no descriptor comes from a section
\* header line; every descriptor's section is the title of the nearest
\* section header before its line, or null when there is none.
C23_ScanBoundAndSections ==
    currentScadSource.k = "str" =>
        \A k \in 1..Len(currentParams) :
            LET lines == SrcLines(currentScadSource.s)
                i == currentParams[k].line + 1
            IN  /\ i \in 1..Len(lines)
                /\ i < FirstDefinition(lines)
                /\ HeaderTitle(lines[i]) = ""
                /\ currentParams[k].section = SectionAt(lines, i)

\* C23 witness: an assignment under the second of two section headers has
\* given a descriptor with the second header's title.
C23_SecondHeaderWitness ==
    /\ currentScadSource.k = "str"
    /\ \E k \in 1..Len(currentParams) :
           LET lines == SrcLines(currentScadSource.s)
               i == currentParams[k].line + 1
           IN  /\ i = 3
               /\ HeaderTitle(lines[1]) = "A"
               /\ HeaderTitle(lines[2]) = "B c"
               /\ currentParams[k].section = Str("B c")

\* C23 second witness: a text whose assignment follows a definition line
\* has been read and has given no descriptor.
C23_StoppedWitness ==
    /\ currentScadSource.k = "str"
    /\ currentParams = <<>>
    /\ LET lines == SrcLines(currentScadSource.s)
       IN  /\ FirstDefinition(lines) < Len(lines)
           /\ lines[Len(lines)] = "b = true;"

KindOf(type) ==
    CASE type = "number" -> "num"
      [] type = "bool" -> "bool"
      [] type = "string" -> "str"
      [] OTHER -> "none"

\* C25: every descriptor as parseParameters returned it has a value of the
\* kind of its type: a number for number, a boolean for bool, a string for
\* string, also when a range annotation made the type number; so the
\* literal the synthesizer and buildDFlags write for a number descriptor is
\* a numeric token.
C25_ValueMatchesType ==
    /\ currentScadSource.k = "str"
    /\ currentParams = ParseParameters(currentScadSource.s)
    => \A k \in 1..Len(currentParams) :
           /\ currentParams[k].value.k = KindOf(currentParams[k].type)
           /\ currentParams[k].type = "number" =>
                  /\ IsNumericLiteral(NewValue(currentParams[k]))
                  /\ DFlagExpr(currentParams[k]) =
                         currentParams[k].name \o "="
                             \o NewValue(currentParams[k])

(***************************************************************************)
(* Properties of the page (Spec).                                          *)
(***************************************************************************)
\* C26: in every state of the main thread the compile button is disabled
\* whenever isCompiling is true.
C26_DisabledWhileCompiling == isCompiling => btnCompileDisabled

\* the artifact the engine writes for a text and the overrides of a
\* descriptor list
ArtifactFor(source, params) ==
    "STL{" \o source \o "}{"
        \o JoinWith(MainArgs(Overrides(params)), " ") \o "}"

\* an artifact the engine has written for a text, whatever the overrides
BuiltFrom(stl, source) == StartsWith(stl, 1, "STL{" \o source \o "}{")

\* C27: when the main thread stores the artifact of a 'result' message as
\* currentStlBuffer, the artifact was compiled from the text and the
\* descriptors that are current then; and whenever an artifact is stored,
\* it was built from the file that is loaded.
C27_ResultFreshness ==
    [][/\ currentStlBuffer' # currentStlBuffer =>
              currentStlBuffer' = ArtifactFor(currentScadSource'.s,
                                              currentParams')
       /\ currentStlBuffer' # "" =>
              BuiltFrom(currentStlBuffer', currentScadSource'.s)]_vars

(***************************************************************************)
(* The application with its scheduling: every external operation of the    *)
(* worker settles and the handler goes on (WorkerStep), and the event loop *)
(* of the page delivers every message and every error of the worker.      *)
(* Clicks, edits and file loads are up to the user.                        *)
(***************************************************************************)
SpecLive ==
    /\ Init /\ [][Next]_vars
    /\ WF_vars(WorkerStep)
    /\ WF_vars(OnWorkerMessage)
    /\ WF_vars(OnWorkerError)

\* C28: every compile request posted is eventually followed by its
\* terminal message, and isCompiling, once true, eventually becomes false
\* again, after a 'result', an 'error' or an error of the worker.
C28_RequestCompletion ==
    /\ \A r \in 1..MaxReq : (r \in InFlight) ~> (r \notin InFlight)
    /\ isCompiling ~> ~isCompiling

=============================================================================
